---------------------------- MODULE Spec2Model ----------------------------
(***************************************************************************)
(* Tag converter (src/script.js): the grouped filter engine                *)
(* (GroupedFilterManager), the word-boundary simplifier of the legacy      *)
(* FilterManager and the ContentCleaner, modelled as state machines.       *)
(*                                                                         *)
(* JavaScript strings are TLA+ strings; a character is a string of length  *)
(* one (Char(s, i)), positions are 0-based as in the source wherever the   *)
(* source computes with them.                                              *)
(***************************************************************************)
EXTENDS Integers, Sequences, FiniteSets, TLC

(***************************************************************************)
(* Bounds of the model.                                                    *)
(***************************************************************************)
MaxGroups == 2      \* groups in a stored configuration
MaxTags == 2        \* length of the generated tag lists handed to applyFilter
MaxSimplifyTags == 2 \* length of the generated lists handed to simplifyTags
MaxSegments == 2    \* comma separated segments in a raw text handed to clean
MaxNameLen == 11    \* characters in the name of a duplicated group
MaxLines == 3       \* lines in a text handed to extractDanbooru
MaxReplacementLen == 4  \* characters in a replacement string handed to the validator
MaxPieces == 3      \* pieces in a text handed to detect
MaxTime == 2000     \* the time, in ms, up to which the example button is followed

(***************************************************************************)
(* String primitives of the JavaScript runtime.                            *)
(***************************************************************************)
Char(s, i) == SubSeq(s, i, i)

UpperLetters == "ABCDEFGHIJKLMNOPQRSTUVWXYZ"

LowerLetters == "abcdefghijklmnopqrstuvwxyz"

Digits == {"0", "1", "2", "3", "4", "5", "6", "7", "8", "9"}

\* \s of the regular expressions and the characters trim() removes
Whitespace == {" ", "\t", "\n"}

UpperSet == { Char(UpperLetters, i) : i \in 1..26 }

LowerSet == { Char(LowerLetters, i) : i \in 1..26 }

\* the lower-case letter of every upper-case letter
LowerOf == [c \in UpperSet |->
              Char(LowerLetters, CHOOSE i \in 1..26 : Char(UpperLetters, i) = c)]

LowerChar(c) == IF c \in UpperSet THEN LowerOf[c] ELSE c

\* s.toLowerCase(), computed half by half
RECURSIVE toLowerCase(_)
toLowerCase(s) ==
    IF Len(s) = 0 THEN ""
    ELSE IF Len(s) = 1 THEN LowerChar(s)
    ELSE toLowerCase(SubSeq(s, 1, Len(s) \div 2))
         \o toLowerCase(SubSeq(s, Len(s) \div 2 + 1, Len(s)))

\* /[a-z0-9]/.test(c) for a string c of length 0 or 1
IsLowerAlnum(c) == c \in LowerSet \/ c \in Digits

\* \w : the characters between which \b finds no boundary
IsWordChar(c) == c \in LowerSet \/ c \in UpperSet \/ c \in Digits \/ c = "_"

RECURSIVE trimStart(_)
trimStart(s) ==
    IF Len(s) > 0 /\ Char(s, 1) \in Whitespace
    THEN trimStart(SubSeq(s, 2, Len(s)))
    ELSE s

RECURSIVE trimEnd(_)
trimEnd(s) ==
    IF Len(s) > 0 /\ Char(s, Len(s)) \in Whitespace
    THEN trimEnd(SubSeq(s, 1, Len(s) - 1))
    ELSE s

trim(s) == trimEnd(trimStart(s))

\* s.startsWith(p), s.endsWith(p)
startsWith(s, p) == Len(p) <= Len(s) /\ SubSeq(s, 1, Len(p)) = p

endsWith(s, p) == Len(p) <= Len(s) /\ SubSeq(s, Len(s) - Len(p) + 1, Len(s)) = p

\* s.indexOf(p): 0-based position of the first occurrence, -1 when absent
indexOf(s, p) ==
    LET hits == { i \in 0..(Len(s) - Len(p)) : SubSeq(s, i + 1, i + Len(p)) = p }
    IN  IF hits = {} THEN -1
        ELSE CHOOSE i \in hits : \A j \in hits : i <= j

includes(s, p) == indexOf(s, p) >= 0

\* s.split(sep) for a non-empty separator
RECURSIVE split(_, _)
split(s, sep) ==
    LET i == indexOf(s, sep)
    IN  IF i < 0 THEN << s >>
        ELSE << SubSeq(s, 1, i) >> \o split(SubSeq(s, i + Len(sep) + 1, Len(s)), sep)

\* array.join(sep)
RECURSIVE join(_, _)
join(arr, sep) ==
    IF Len(arr) = 0 THEN ""
    ELSE IF Len(arr) = 1 THEN arr[1]
    ELSE arr[1] \o sep \o join(Tail(arr), sep)

\* array.filter(pred) by a set of kept 1-based indices: SelectIdx(arr, keep)
RECURSIVE SelectIdx(_, _, _)
SelectIdx(arr, keep, i) ==
    IF i > Len(arr) THEN << >>
    ELSE (IF i \in keep THEN << arr[i] >> ELSE << >>) \o SelectIdx(arr, keep, i + 1)

Range(arr) == { arr[i] : i \in 1..Len(arr) }

SetMin(S) == CHOOSE m \in S : \A n \in S : m <= n

(***************************************************************************)
(* GroupedFilterManager: pattern compilation and matching.                 *)
(*                                                                         *)
(* A keyword is the source text of a regular expression.  The matcher      *)
(* interprets the constructs the keyword pool uses: literal characters,    *)
(* the wildcard '.', a leading '^' and a trailing '$'; a keyword whose     *)
(* parentheses do not balance, or that begins with a quantifier, makes     *)
(* new RegExp throw.                                                       *)
(***************************************************************************)
Quantifiers == {"*", "+", "?"}

CountChar(s, c) == Cardinality({ i \in 1..Len(s) : Char(s, i) = c })

\* new RegExp(keyword, 'i') returns (TRUE) or throws a SyntaxError (FALSE)
regExpCompiles(keyword) ==
    /\ CountChar(keyword, "(") = CountChar(keyword, ")")
    /\ ~(Len(keyword) > 0 /\ Char(keyword, 1) \in Quantifiers)

\* the compiled pattern of one keyword: the regular expression itself, or,
\* when it does not compile, the escaped keyword between ^ and $
compilePattern(keyword) ==
    IF regExpCompiles(keyword)
    THEN [kind |-> "regex", source |-> keyword]
    ELSE [kind |-> "literal", source |-> keyword]

RECURSIVE compileGroupPatterns(_)
compileGroupPatterns(keywords) ==
    IF Len(keywords) = 0 THEN << >>
    ELSE (IF trim(keywords[1]) = "" THEN << >> ELSE << compilePattern(keywords[1]) >>)
         \o compileGroupPatterns(Tail(keywords))

\* one pattern character against one subject character, flag 'i'
regexCharMatches(pc, c) ==
    IF pc = "." THEN c # "\n" ELSE LowerChar(pc) = LowerChar(c)

\* the body of a pattern matches the subject at 0-based offset o
regexBodyMatchesAt(body, subject, o) ==
    /\ o + Len(body) <= Len(subject)
    /\ \A k \in 1..Len(body) : regexCharMatches(Char(body, k), Char(subject, o + k))

\* RegExp.prototype.test: an unanchored search unless the source anchors it
patternTest(pattern, tag) ==
    IF pattern.kind = "literal"
    THEN toLowerCase(tag) = toLowerCase(pattern.source)
    ELSE LET src == pattern.source
             hasStart == startsWith(src, "^")
             rest == IF hasStart THEN SubSeq(src, 2, Len(src)) ELSE src
             hasEnd == endsWith(rest, "$")
             body == IF hasEnd THEN SubSeq(rest, 1, Len(rest) - 1) ELSE rest
         IN  \E o \in 0..Len(tag) :
                /\ regexBodyMatchesAt(body, tag, o)
                /\ hasStart => o = 0
                /\ hasEnd => o + Len(body) = Len(tag)

(***************************************************************************)
(* GroupedFilterManager: replacement strings.                              *)
(***************************************************************************)
\* replacement.match(/\s,|,\s{0}(?!\s)|,\s{2,}/)
badCommaFormat(r) ==
    \/ \E i \in 1..(Len(r) - 1) : Char(r, i) \in Whitespace /\ Char(r, i + 1) = ","
    \/ \E i \in 1..Len(r) :
          /\ Char(r, i) = ","
          /\ (i = Len(r) \/ Char(r, i + 1) \notin Whitespace)
    \/ \E i \in 1..(Len(r) - 2) :
          /\ Char(r, i) = ","
          /\ Char(r, i + 1) \in Whitespace
          /\ Char(r, i + 2) \in Whitespace

isValidReplacement(replacement) ==
    IF trim(replacement) = "" THEN TRUE
    ELSE IF includes(replacement, ",")
    THEN IF badCommaFormat(replacement) THEN FALSE
         ELSE LET parts == split(replacement, ", ")
              IN  IF \E i \in 1..Len(parts) : trim(parts[i]) = "" THEN FALSE
                  ELSE join(parts, ", ") = replacement
    ELSE TRUE

RECURSIVE trimNonEmpty(_)
trimNonEmpty(parts) ==
    IF Len(parts) = 0 THEN << >>
    ELSE (IF Len(trim(parts[1])) > 0 THEN << trim(parts[1]) >> ELSE << >>)
         \o trimNonEmpty(Tail(parts))

parseReplacementString(replacement) ==
    IF trim(replacement) = "" THEN << >>
    ELSE trimNonEmpty(split(replacement, ", "))

\* exact-string deduplication, first occurrence kept
dedupeKeepFirst(array) ==
    SelectIdx(array, { i \in 1..Len(array) : \A j \in 1..(i - 1) : array[j] # array[i] }, 1)

(***************************************************************************)
(* GroupedFilterManager._simplifyTags: plain substring containment.        *)
(***************************************************************************)
RECURSIVE reversed(_)
reversed(array) ==
    IF Len(array) = 0 THEN << >>
    ELSE Append(reversed(Tail(array)), array[1])

\* the final sort by descending originalIndex
groupedSimplifyTagsDescending(tags) ==
    IF Len(tags) <= 1 THEN tags
    ELSE reversed(SelectIdx(tags,
            { i \in 1..Len(tags) :
                ~\E j \in 1..Len(tags) :
                    /\ i # j
                    /\ includes(tags[j], tags[i])
                    /\ tags[j] # tags[i] },
            1))

\* a pass without the test otherItem.tag !== currentItem.tag
groupedSimplifyTagsDropEqual(tags) ==
    IF Len(tags) <= 1 THEN tags
    ELSE SelectIdx(tags,
            { i \in 1..Len(tags) :
                ~\E j \in 1..Len(tags) : i # j /\ includes(tags[j], tags[i]) },
            1)

groupedSimplifyTags(tags) ==
    IF Len(tags) <= 1 THEN tags
    ELSE SelectIdx(tags,
            { i \in 1..Len(tags) :
                ~\E j \in 1..Len(tags) :
                    /\ i # j
                    /\ includes(tags[j], tags[i])
                    /\ tags[j] # tags[i] },
            1)

(***************************************************************************)
(* GroupedFilterManager._applyGroupFilter and applyFilter.                 *)
(* A group is [id, enabled, keywords, replacement, currentMatchCount];     *)
(* matched indices are 0-based as in the source.                           *)
(***************************************************************************)
\* array.splice(pos, 0, ...items) on a copy
splice(arr, pos, items) ==
    LET p == IF pos > Len(arr) THEN Len(arr) ELSE pos
    IN  SubSeq(arr, 1, p) \o items \o SubSeq(arr, p + 1, Len(arr))

\* a forEach that stops at the first matching tag
matchedIndicesFirstOnly(tags, patterns) ==
    LET all == { i \in 0..(Len(tags) - 1) :
                   \E k \in 1..Len(patterns) : patternTest(patterns[k], tags[i + 1]) }
    IN  IF all = {} THEN {} ELSE { SetMin(all) }

matchedIndicesOf(tags, patterns) ==
    { i \in 0..(Len(tags) - 1) :
        \E k \in 1..Len(patterns) : patternTest(patterns[k], tags[i + 1]) }

insertPositionShifted(matchedIndices) == SetMin(matchedIndices) + 1

\* Math.min(...matchedIndices)
insertPosition(matchedIndices) == SetMin(matchedIndices)

\* the list after the deletion and the insertion of the replacement tokens,
\* before the deduplication (the local filteredTags at line 527)
splicedTags(tags, matchedIndices, replacement) ==
    LET remaining == SelectIdx(tags, { i \in 1..Len(tags) : (i - 1) \notin matchedIndices }, 1)
    IN  IF replacement # "" /\ isValidReplacement(replacement)
        THEN LET replacementTokens == parseReplacementString(replacement)
             IN  IF Len(replacementTokens) > 0
                 THEN splice(remaining, insertPosition(matchedIndices), replacementTokens)
                 ELSE remaining
        ELSE remaining

applyGroupFilter(tags, group) ==
    LET patterns == compileGroupPatterns(group.keywords)
        matchedIndices == matchedIndicesOf(tags, patterns)
    IN  IF matchedIndices = {}
        THEN [filteredTags |-> tags, matchCount |-> 0,
              input |-> tags, matched |-> {}, spliced |-> tags, id |-> group.id]
        ELSE LET spliced == splicedTags(tags, matchedIndices, group.replacement)
             IN  [filteredTags |-> dedupeKeepFirst(spliced),
                  matchCount |-> Cardinality(matchedIndices),
                  input |-> tags, matched |-> matchedIndices,
                  spliced |-> spliced, id |-> group.id]

skippedGroupCountKept(group) == group.currentMatchCount

\* the count stored for a disabled or keyword-less group (line 460)
skippedGroupCount(group) == 0

nextWorkingListStale(currentTags, run) == currentTags

\* currentTags = result.filteredTags (line 465)
nextWorkingList(currentTags, run) == run.filteredTags

\* the for loop of applyFilter from group i on; runs collects, per active
\* group, what _applyGroupFilter saw and returned
RECURSIVE applyFilterLoop(_, _, _, _, _)
applyFilterLoop(gs, i, currentTags, totalFilteredCount, runs) ==
    IF i > Len(gs)
    THEN [groups |-> gs, currentTags |-> currentTags,
          totalFilteredCount |-> totalFilteredCount, runs |-> runs]
    ELSE IF ~gs[i].enabled \/ Len(gs[i].keywords) = 0
    THEN applyFilterLoop([gs EXCEPT ![i].currentMatchCount = skippedGroupCount(gs[i])],
                         i + 1, currentTags, totalFilteredCount, runs)
    ELSE LET run == applyGroupFilter(currentTags, gs[i])
         IN  applyFilterLoop([gs EXCEPT ![i].currentMatchCount = run.matchCount],
                             i + 1, nextWorkingList(currentTags, run),
                             totalFilteredCount + run.matchCount, Append(runs, run))

\* a loop that also removes the groups it skips from this.groups
applyFilterEnabledActiveOnly(simplify, gs, tags) ==
    LET loop == applyFilterLoop(gs, 1, tags, 0, << >>)
        simplifiedTags == groupedSimplifyTags(loop.currentTags)
    IN  [result |-> IF simplify THEN simplifiedTags ELSE loop.currentTags,
         groups |-> SelectIdx(loop.groups,
                        { i \in 1..Len(gs) : gs[i].enabled /\ Len(gs[i].keywords) > 0 }, 1),
         lastTotalFilteredCount |-> loop.totalFilteredCount,
         lastSimplifiedCount |->
            IF simplify THEN Len(loop.currentTags) - Len(simplifiedTags) ELSE 0,
         filtered |-> loop.currentTags,
         runs |-> loop.runs]

\* the body of applyFilter below the masterEnabled guard
applyFilterEnabled(simplify, gs, tags) ==
    LET loop == applyFilterLoop(gs, 1, tags, 0, << >>)
        simplifiedTags == groupedSimplifyTags(loop.currentTags)
    IN  [result |-> IF simplify THEN simplifiedTags ELSE loop.currentTags,
         groups |-> loop.groups,
         lastTotalFilteredCount |-> loop.totalFilteredCount,
         lastSimplifiedCount |->
            IF simplify THEN Len(loop.currentTags) - Len(simplifiedTags) ELSE 0,
         filtered |-> loop.currentTags,
         runs |-> loop.runs]

applyFilterUnguarded(master, simplify, gs, total, simplified, tags) ==
    applyFilterEnabled(simplify, gs, tags)

\* applyFilter(tags) in a manager whose fields are master, simplify, gs,
\* total (lastTotalFilteredCount) and simplified (lastSimplifiedCount):
\* the returned list and the fields after the call
applyFilter(master, simplify, gs, total, simplified, tags) ==
    IF ~master
    THEN [result |-> tags, groups |-> gs,
          lastTotalFilteredCount |-> total, lastSimplifiedCount |-> simplified,
          filtered |-> tags, runs |-> << >>]
    ELSE applyFilterEnabled(simplify, gs, tags)

(***************************************************************************)
(* FilterManager (the flat engine): word-boundary and bracket containment. *)
(***************************************************************************)
\* \b holds in s at 0-based position p
wordBoundaryAt(s, p) ==
    (p > 0 /\ IsWordChar(Char(s, p))) # (p < Len(s) /\ IsWordChar(Char(s, p + 1)))

\* new RegExp('\\b' + escapeRegex(shortTag) + '\\b', 'i').test(longTag)
wordBoundaryTest(shortTag, longTag) ==
    \E p \in 0..(Len(longTag) - Len(shortTag)) :
        /\ toLowerCase(SubSeq(longTag, p + 1, p + Len(shortTag))) = toLowerCase(shortTag)
        /\ wordBoundaryAt(longTag, p)
        /\ wordBoundaryAt(longTag, p + Len(shortTag))

isSimpleWordContained(shortTag, longTag) ==
    LET shortLower == toLowerCase(shortTag)
        longLower == toLowerCase(longTag)
        beforeMatch == indexOf(longLower, shortLower)
        beforeChar == IF beforeMatch > 0 THEN Char(longLower, beforeMatch) ELSE ""
        afterChar == IF beforeMatch + Len(shortLower) < Len(longLower)
                     THEN Char(longLower, beforeMatch + Len(shortLower) + 1)
                     ELSE ""
    IN  IF ~wordBoundaryTest(shortTag, longTag) THEN FALSE
        ELSE IF startsWith(longLower, shortLower) \/ endsWith(longLower, shortLower)
        THEN IF longLower = shortLower THEN FALSE
             ELSE IF beforeMatch >= 0 /\ (IsLowerAlnum(beforeChar) \/ IsLowerAlnum(afterChar))
             THEN FALSE
             ELSE TRUE
        ELSE TRUE

\* the matches of /\(([^)]+)\)/g in tag from 1-based position from on, as
\* records [text |-> match[0], content |-> match[1]], left to right
RECURSIVE bracketMatches(_, _)
bracketMatches(tag, from) ==
    LET opens == { p \in from..Len(tag) :
                     /\ Char(tag, p) = "("
                     /\ \E q \in (p + 2)..Len(tag) :
                           /\ Char(tag, q) = ")"
                           /\ \A k \in (p + 1)..(q - 1) : Char(tag, k) # ")" }
    IN  IF opens = {} THEN << >>
        ELSE LET p == SetMin(opens)
                 q == SetMin({ k \in (p + 1)..Len(tag) : Char(tag, k) = ")" })
             IN  << [text |-> SubSeq(tag, p, q), content |-> SubSeq(tag, p + 1, q - 1)] >>
                 \o bracketMatches(tag, q + 1)

\* str.replace(text, '') for a string text: the first occurrence is removed
removeFirst(str, text) ==
    LET i == indexOf(str, text)
    IN  IF i < 0 THEN str
        ELSE SubSeq(str, 1, i) \o SubSeq(str, i + Len(text) + 1, Len(str))

RECURSIVE stripMatches(_, _)
stripMatches(cleanTag, matches) ==
    IF Len(matches) = 0 THEN cleanTag
    ELSE stripMatches(trim(removeFirst(cleanTag, matches[1].text)), Tail(matches))

parseTagStructure(tag) ==
    LET matches == bracketMatches(tag, 1)
    IN  [mainWord |-> trim(stripMatches(tag, matches)),
         bracketContents |-> [k \in 1..Len(matches) |-> trim(matches[k].content)]]

isComplexPhraseContained(shortTag, longTag) ==
    LET shortParts == parseTagStructure(shortTag)
        longParts == parseTagStructure(longTag)
    IN  IF shortParts.mainWord # "" /\ longParts.mainWord # ""
        THEN IF toLowerCase(shortParts.mainWord) # toLowerCase(longParts.mainWord)
             THEN FALSE
             ELSE \A a \in 1..Len(shortParts.bracketContents) :
                     \E b \in 1..Len(longParts.bracketContents) :
                        includes(toLowerCase(longParts.bracketContents[b]),
                                 toLowerCase(shortParts.bracketContents[a]))
        ELSE FALSE

isTagContainedIn(shortTag, longTag) ==
    IF toLowerCase(shortTag) = toLowerCase(longTag) THEN FALSE
    ELSE IF Len(shortTag) >= Len(longTag) THEN FALSE
    ELSE \/ isSimpleWordContained(trim(shortTag), trim(longTag))
         \/ isComplexPhraseContained(trim(shortTag), trim(longTag))

\* FilterManager.simplifyTags
simplifyTags(tags) ==
    IF Len(tags) <= 1 THEN tags
    ELSE SelectIdx(tags,
            { i \in 1..Len(tags) :
                ~\E j \in 1..Len(tags) : i # j /\ isTagContainedIn(tags[i], tags[j]) },
            1)

(***************************************************************************)
(* ContentCleaner.                                                         *)
(***************************************************************************)
CATEGORY_MARKERS == << "Artist", "Character", "Copyright", "Tag", "Metadata", "General" >>

\* the first 1-based position at or after p whose character is not in S
RECURSIVE runEnd(_, _, _)
runEnd(s, p, S) ==
    IF p <= Len(s) /\ Char(s, p) \in S THEN runEnd(s, p + 1, S) ELSE p

\* WEIGHT_REMOVAL = /\s+\d+\.?\d*[kM]?\s*$/ matches s from 1-based position p
\* to the end of s
weightRemovalMatchesAt(s, p) ==
    LET afterSpaces == runEnd(s, p, Whitespace)
        afterDigits == runEnd(s, afterSpaces, Digits)
        afterDot == IF afterDigits <= Len(s) /\ Char(s, afterDigits) = "."
                    THEN afterDigits + 1 ELSE afterDigits
        afterFraction == runEnd(s, afterDot, Digits)
        afterUnit == IF afterFraction <= Len(s) /\ Char(s, afterFraction) \in {"k", "M"}
                     THEN afterFraction + 1 ELSE afterFraction
    IN  /\ afterSpaces > p
        /\ afterDigits > afterSpaces
        /\ runEnd(s, afterUnit, Whitespace) = Len(s) + 1

\* tag.replace(WEIGHT_REMOVAL, ''): the leftmost match is removed
removeWeight(tag) ==
    LET starts == { p \in 1..Len(tag) : weightRemovalMatchesAt(tag, p) }
    IN  IF starts = {} THEN tag ELSE SubSeq(tag, 1, SetMin(starts) - 1)

\* s.replace(NORMALIZE_SPACES, ' ') with NORMALIZE_SPACES = /\s+/g
RECURSIVE normalizeSpaces(_)
normalizeSpaces(s) ==
    IF Len(s) = 0 THEN ""
    ELSE IF Char(s, 1) \in Whitespace
    THEN " " \o normalizeSpaces(SubSeq(s, runEnd(s, 1, Whitespace), Len(s)))
    ELSE Char(s, 1) \o normalizeSpaces(SubSeq(s, 2, Len(s)))

isPureCategoryWord(tag) ==
    \E k \in 1..Len(CATEGORY_MARKERS) : toLowerCase(CATEGORY_MARKERS[k]) = toLowerCase(tag)

\* cleanSingleTag; the empty string stands for null (both are falsy to clean)
cleanSingleTag(tag) ==
    IF tag = "" THEN ""
    ELSE IF isPureCategoryWord(tag) THEN ""
    ELSE trim(normalizeSpaces(trim(removeWeight(tag))))

\* a case-insensitive deduplication that keeps the last occurrence
removeDuplicatesKeepLast(tags) ==
    SelectIdx(tags,
        { i \in 1..Len(tags) :
            \A j \in (i + 1)..Len(tags) : toLowerCase(tags[j]) # toLowerCase(tags[i]) },
        1)

\* case-insensitive deduplication, first occurrence kept
removeDuplicates(tags) ==
    SelectIdx(tags,
        { i \in 1..Len(tags) :
            \A j \in 1..(i - 1) : toLowerCase(tags[j]) # toLowerCase(tags[i]) },
        1)

RECURSIVE cleanSegments(_)
cleanSegments(segments) ==
    IF Len(segments) = 0 THEN << >>
    ELSE (IF cleanSingleTag(trim(segments[1])) # ""
          THEN << cleanSingleTag(trim(segments[1])) >> ELSE << >>)
         \o cleanSegments(Tail(segments))

clean(text) ==
    IF text = "" THEN << >>
    ELSE removeDuplicates(cleanSegments(split(text, ",")))

(***************************************************************************)
(* FormatDetector and ContentExtractor.                                    *)
(***************************************************************************)
\* the words of GELBOORU_MARKERS = /(?:Artist|Character|Copyright|Tag|Metadata)\?/i
GELBOORU_MARKER_WORDS == << "Artist", "Character", "Copyright", "Tag", "Metadata" >>

\* GELBOORU_MARKERS.test(input)
hasGelbooruMarkers(input) ==
    \E k \in 1..Len(GELBOORU_MARKER_WORDS) :
        includes(toLowerCase(input), toLowerCase(GELBOORU_MARKER_WORDS[k]) \o "?")

\* a detect without the rule for a single line with a bare '?'
detectMarkersOnly(input) ==
    LET hasNewlines == includes(input, "\n")
        hasQuestionMarks == includes(input, "?")
    IN  IF ~hasNewlines /\ hasGelbooruMarkers(input) THEN "gelbooru"
        ELSE IF hasNewlines /\ hasQuestionMarks THEN "danbooru"
        ELSE "standard"

detect(input) ==
    LET hasNewlines == includes(input, "\n")
        hasQuestionMarks == includes(input, "?")
    IN  IF ~hasNewlines /\ hasGelbooruMarkers(input) THEN "gelbooru"
        ELSE IF hasNewlines /\ hasQuestionMarks THEN "danbooru"
        ELSE IF ~hasNewlines /\ hasQuestionMarks THEN "gelbooru"
        ELSE "standard"

\* lines.map(line => line.trim())
trimAll(lines) == [k \in 1..Len(lines) |-> trim(lines[k])]

\* the for loop of extractDanbooru from the 0-based index i on
RECURSIVE danbooruContents(_, _)
danbooruContents(lines, i) ==
    IF i >= Len(lines) THEN << >>
    ELSE IF lines[i + 1] = "?" /\ i + 1 < Len(lines)
    THEN << lines[i + 2] >> \o danbooruContents(lines, i + 2)
    ELSE danbooruContents(lines, i + 1)

extractDanbooru(input) ==
    join(danbooruContents(trimAll(split(input, "\n")), 0), ", ")

\* the words of CATEGORY_CONTENT = /^(Artist|Character|Copyright|Metadata|Tag)\s+(.*)$/
CATEGORY_CONTENT_WORDS == << "Artist", "Character", "Copyright", "Metadata", "Tag" >>

\* segment.match(CATEGORY_CONTENT): group 2 of the match, in a one-element
\* sequence, or the empty sequence when the pattern does not match
categoryContentMatch(segment) ==
    LET heads == { k \in 1..Len(CATEGORY_CONTENT_WORDS) :
                     startsWith(segment, CATEGORY_CONTENT_WORDS[k]) }
    IN  IF heads = {} THEN << >>
        ELSE LET afterWord == Len(CATEGORY_CONTENT_WORDS[SetMin(heads)]) + 1
                 afterSpaces == runEnd(segment, afterWord, Whitespace)
                 tail == SubSeq(segment, afterSpaces, Len(segment))
             IN  IF afterSpaces > afterWord /\ ~includes(tail, "\n")
                 THEN << tail >>
                 ELSE << >>

\* GELBOORU_WEIGHT = /\s+\d+\s*(Artist|Character|Copyright|Metadata|Tag)?.*$/
\* matches s from 1-based position p to the end of s ('.' never crosses a
\* line break, \s does)
gelbooruWeightMatchesAt(s, p) ==
    LET afterSpaces == runEnd(s, p, Whitespace)
        afterDigits == runEnd(s, afterSpaces, Digits)
    IN  /\ afterSpaces > p
        /\ afterDigits > afterSpaces
        /\ ~includes(SubSeq(s, runEnd(s, afterDigits, Whitespace), Len(s)), "\n")

\* content.replace(GELBOORU_WEIGHT, ''): the leftmost match is removed
removeGelbooruWeight(content) ==
    LET starts == { p \in 1..Len(content) : gelbooruWeightMatchesAt(content, p) }
    IN  IF starts = {} THEN content ELSE SubSeq(content, 1, SetMin(starts) - 1)

\* /\s+\d+.*$/ matches s from 1-based position p to the end of s
numberTailMatchesAt(s, p) ==
    LET afterSpaces == runEnd(s, p, Whitespace)
        afterDigits == runEnd(s, afterSpaces, Digits)
    IN  /\ afterSpaces > p
        /\ afterDigits > afterSpaces
        /\ ~includes(SubSeq(s, afterDigits, Len(s)), "\n")

\* segment.replace(/\s+\d+.*$/, ''): the leftmost match is removed
removeNumberTail(segment) ==
    LET starts == { p \in 1..Len(segment) : numberTailMatchesAt(segment, p) }
    IN  IF starts = {} THEN segment ELSE SubSeq(segment, 1, SetMin(starts) - 1)

\* processGelbooruSegment; the empty string stands for null
processGelbooruSegment(segment) ==
    LET categoryMatch == categoryContentMatch(segment)
    IN  IF Len(categoryMatch) > 0
        THEN trim(removeGelbooruWeight(categoryMatch[1]))
        ELSE LET cleanedSegment == trim(removeNumberTail(segment))
             IN  IF cleanedSegment # "" /\ Len(cleanedSegment) > 1
                 THEN cleanedSegment ELSE ""

\* the for loop of extractGelbooru
RECURSIVE processedSegments(_)
processedSegments(segments) ==
    IF Len(segments) = 0 THEN << >>
    ELSE (IF trim(segments[1]) = "" THEN << >>
          ELSE IF processGelbooruSegment(trim(segments[1])) # ""
          THEN << processGelbooruSegment(trim(segments[1])) >>
          ELSE << >>)
         \o processedSegments(Tail(segments))

extractGelbooru(input) == join(processedSegments(split(input, "?")), ", ")

extract(input, format) ==
    IF format = "danbooru" THEN extractDanbooru(input)
    ELSE IF format = "gelbooru" THEN extractGelbooru(input)
    ELSE input

(***************************************************************************)
(* State.                                                                  *)
(***************************************************************************)
VARIABLES
    masterEnabled,           \* GroupedFilterManager.masterEnabled
    simplifyEnabled,         \* GroupedFilterManager.simplifyEnabled
    groups,                  \* GroupedFilterManager.groups, in execution order
    lastTotalFilteredCount,  \* GroupedFilterManager.lastTotalFilteredCount
    lastSimplifiedCount,     \* GroupedFilterManager.lastSimplifiedCount
    storedConfig,            \* localStorage[GROUPED_STORAGE_KEY], parsed
    lastOp,                  \* the operation that ran last
    argTags,                 \* the tag list handed to it
    result,                  \* the tag list it returned
    filtered,                \* applyFilter's currentTags after the group loop
    groupRuns,               \* applyFilter's calls of _applyGroupFilter, in order
    input,                   \* the text handed to convert, an extractor or a validator
    valid,                   \* what _isValidReplacement returned for input
    success,                 \* the success field of what the call returned, if
                             \* it was importConfig
    format,                  \* what FormatDetector.detect returned for input
    oldSettings,             \* localStorage[STORAGE_KEY], parsed
    display,                 \* what UIManager shows: format status, counts, error
    thrown,                  \* whether the call ended by throwing to its caller
    isLoading,               \* ExampleManager.isLoading
    currentIndex,            \* ExampleManager.currentIndex
    now,                     \* the time, in units of TimerTick milliseconds
    unlockAt,                \* when the pending setTimeout callbacks of loadExample
                             \* run; NoTimer when none is pending
    rawText,                 \* the text handed to ContentCleaner.clean
    cleaned                  \* what clean returned for rawText

managerVars == << masterEnabled, simplifyEnabled, groups,
                  lastTotalFilteredCount, lastSimplifiedCount, storedConfig >>

callVars == << lastOp, argTags, result, filtered, groupRuns >>

cleanerVars == << input, valid, rawText, cleaned >>

importVars == << success >>

uiVars == << display, thrown >>

exampleVars == << isLoading, currentIndex, now, unlockAt >>

\* the legacy store, the page and the example loader
pageVars == << format, oldSettings, display, thrown, isLoading, currentIndex, now,
              unlockAt >>

\* nothing under the legacy key
NoOldSettings == [absent |-> TRUE]

\* the page as the HTML gives it: no format status, no error
InitialDisplay ==
    [format |-> "hidden", tagCount |-> 0, filteredCount |-> 0,
     simplifiedCount |-> 0, error |-> FALSE]

NoTimer == 0 - 1

\* no legacy configuration, an untouched page, an idle example loader
pageIdle ==
    /\ format = "none"
    /\ oldSettings = NoOldSettings
    /\ display = InitialDisplay
    /\ thrown = FALSE
    /\ isLoading = FALSE
    /\ currentIndex = 0 - 1
    /\ now = 0
    /\ unlockAt = NoTimer

vars == << masterEnabled, simplifyEnabled, groups, lastTotalFilteredCount,
           lastSimplifiedCount, storedConfig, lastOp, argTags, result,
           filtered, groupRuns, input, valid, rawText, cleaned, success,
           format, oldSettings, display, thrown, isLoading, currentIndex, now, unlockAt >>

(***************************************************************************)
(* Inputs.                                                                 *)
(***************************************************************************)
\* keyword lists and replacement strings of stored groups
GroupHat == [keywords |-> << "hat" >>, replacement |-> ""]

GroupHatToCap == [keywords |-> << "hat", "h.t" >>, replacement |-> "cap"]

GroupCap == [keywords |-> << "^cap$", "(", " " >>, replacement |-> "cap,x"]

GroupWatermark == [keywords |-> << "watermark" >>, replacement |-> "clean, safe"]

GroupEmpty == [keywords |-> << >>, replacement |-> "cap"]

\* the group lists of the stored configurations, before the cut to MaxGroups
StoredGroupSpecs ==
    { << >>,
      << GroupHat >>,
      << GroupWatermark >>,
      << GroupHatToCap, GroupCap >>,
      << GroupCap, GroupHatToCap >>,
      << GroupHat, GroupEmpty >>,
      << GroupWatermark, GroupHatToCap, GroupHat >>,
      << GroupEmpty, GroupCap, GroupHatToCap >> }

\* tags of the generated lists
TagPool == { "hat", "cap" }

RECURSIVE SeqsUpTo(_, _)
SeqsUpTo(S, n) ==
    IF n = 0 THEN { << >> }
    ELSE LET shorter == SeqsUpTo(S, n - 1)
         IN  shorter \cup { Append(q, x) : q \in shorter, x \in S }

\* the lists of the documented scenarios
ScenarioTagLists ==
    { << "hat", "red hat" >>,
      << "1girl", "watermark", "smile" >>,
      << "censored", "uncensored" >>,
      << "unzen (azur lane)", "unzen (sojourn through clear seas) (azur lane)" >>,
      << "red hat", "smile", "Hat", "cap" >>,
      << "(", "hat (", "cap" >> }

TagLists == ScenarioTagLists \cup SeqsUpTo(TagPool, MaxTags)

\* a stored group list: ids 1..n, every group enabled, nothing counted yet
makeGroups(specs) ==
    [i \in 1..Len(specs) |->
        [id |-> i, name |-> "group", enabled |-> TRUE, keywords |-> specs[i].keywords,
         replacement |-> specs[i].replacement, currentMatchCount |-> 0]]

GroupLists(n) ==
    { makeGroups(SubSeq(c, 1, IF Len(c) < n THEN Len(c) ELSE n)) : c \in StoredGroupSpecs }

GroupIds == 0..MaxGroups

\* the partial group objects handed to updateGroup
GroupUpdates == { [enabled |-> TRUE], [enabled |-> FALSE] }

(***************************************************************************)
(* Operations of GroupedFilterManager.                                     *)
(***************************************************************************)
\* a saveSettings that serialises the switches only
savedSettingsWithoutGroups(master, simplify, gs) ==
    [masterEnabled |-> master, simplifyEnabled |-> simplify, groups |-> << >>]

\* what saveSettings writes under GROUPED_STORAGE_KEY
savedSettings(master, simplify, gs) ==
    [masterEnabled |-> master, simplifyEnabled |-> simplify, groups |-> gs]

noCall == /\ argTags' = << >>
          /\ result' = << >>
          /\ filtered' = << >>
          /\ groupRuns' = << >>
          /\ success' = FALSE

\* the constructor: loadSettings finds a grouped configuration in the store
Init ==
    /\ \E gs \in GroupLists(MaxGroups), m \in BOOLEAN, s \in BOOLEAN :
          /\ storedConfig = savedSettings(m, s, gs)
          /\ masterEnabled = m
          /\ simplifyEnabled = s
          /\ groups = gs
    /\ lastTotalFilteredCount = 0
    /\ lastSimplifiedCount = 0
    /\ lastOp = "constructor"
    /\ argTags = << >>
    /\ result = << >>
    /\ filtered = << >>
    /\ groupRuns = << >>
    /\ input = ""
    /\ valid = FALSE
    /\ success = FALSE
    /\ pageIdle
    /\ rawText = ""
    /\ cleaned = << >>

SetMasterEnabled(enabled) ==
    /\ masterEnabled' = enabled
    /\ storedConfig' = savedSettings(enabled, simplifyEnabled, groups)
    /\ lastOp' = "setMasterEnabled"
    /\ noCall
    /\ UNCHANGED << simplifyEnabled, groups, lastTotalFilteredCount,
                    lastSimplifiedCount, cleanerVars, pageVars >>

SetSimplifyEnabled(enabled) ==
    /\ simplifyEnabled' = enabled
    /\ storedConfig' = savedSettings(masterEnabled, enabled, groups)
    /\ lastOp' = "setSimplifyEnabled"
    /\ noCall
    /\ UNCHANGED << masterEnabled, groups, lastTotalFilteredCount,
                    lastSimplifiedCount, cleanerVars, pageVars >>

\* Object.assign(group, updates)
assignGroup(group, updates) ==
    [f \in DOMAIN group |-> IF f \in DOMAIN updates THEN updates[f] ELSE group[f]]

UpdateGroup(groupId, updates) ==
    /\ IF \E i \in 1..Len(groups) : groups[i].id = groupId
       THEN LET i == CHOOSE k \in 1..Len(groups) : groups[k].id = groupId
                gs == [groups EXCEPT ![i] = assignGroup(groups[i], updates)]
            IN  /\ groups' = gs
                /\ storedConfig' = savedSettings(masterEnabled, simplifyEnabled, gs)
       ELSE UNCHANGED << groups, storedConfig >>
    /\ lastOp' = "updateGroup"
    /\ noCall
    /\ UNCHANGED << masterEnabled, simplifyEnabled, lastTotalFilteredCount,
                    lastSimplifiedCount, cleanerVars, pageVars >>

ApplyFilter(tags) ==
    \E out \in { applyFilter(masterEnabled, simplifyEnabled, groups,
                             lastTotalFilteredCount, lastSimplifiedCount, tags) } :
        /\ groups' = out.groups
        /\ lastTotalFilteredCount' = out.lastTotalFilteredCount
        /\ lastSimplifiedCount' = out.lastSimplifiedCount
        /\ lastOp' = "applyFilter"
        /\ argTags' = tags
        /\ result' = out.result
        /\ filtered' = out.filtered
        /\ groupRuns' = out.runs
        /\ UNCHANGED << masterEnabled, simplifyEnabled, storedConfig, cleanerVars, importVars, pageVars >>

Next ==
    \/ \E b \in BOOLEAN : SetMasterEnabled(b)
    \/ \E b \in BOOLEAN : SetSimplifyEnabled(b)
    \/ \E id \in GroupIds, u \in GroupUpdates : UpdateGroup(id, u)
    \/ \E tags \in TagLists : ApplyFilter(tags)

Spec == Init /\ [][Next]_vars

(***************************************************************************)
(* FilterManager.simplifyTags as a function of its argument.               *)
(***************************************************************************)
SimplifyTagPool ==
    { "hat", "Hat", "red hat", "hatter hat", "that hat", "blue eyes",
      "censored", "uncensored" }

SimplifyInputs ==
    { << "hat", "red hat", "blue eyes" >>,
      << "unzen (azur lane)", "unzen (sojourn through clear seas) (azur lane)" >>,
      << "a (b)", "a (b) (c)", "a b" >> }
    \cup SeqsUpTo(SimplifyTagPool, MaxSimplifyTags)

\* no configuration in the store: _initializeDefaults
NoStoredConfig == [absent |-> TRUE]

managerIdle ==
    /\ masterEnabled = FALSE
    /\ simplifyEnabled = FALSE
    /\ groups = << >>
    /\ lastTotalFilteredCount = 0
    /\ lastSimplifiedCount = 0
    /\ storedConfig = NoStoredConfig
    /\ filtered = << >>
    /\ groupRuns = << >>

InitSimplify ==
    /\ managerIdle
    /\ lastOp = "start"
    /\ argTags \in SimplifyInputs
    /\ result = << >>
    /\ input = ""
    /\ valid = FALSE
    /\ success = FALSE
    /\ pageIdle
    /\ rawText = ""
    /\ cleaned = << >>

SimplifyTags ==
    /\ lastOp = "start"
    /\ result' = simplifyTags(argTags)
    /\ lastOp' = "simplifyTags"
    /\ UNCHANGED << managerVars, argTags, filtered, groupRuns, cleanerVars, importVars, pageVars >>

NextSimplify == SimplifyTags

SpecSimplify == InitSimplify /\ [][NextSimplify]_vars

(***************************************************************************)
(* ContentCleaner.clean as a function of its argument, and clean applied   *)
(* to its own output joined with ', '.                                     *)
(***************************************************************************)
SegmentPool ==
    { "1girl", "1girl 5", "1girl 5 6", " 1GIRL 2k", "long  hair 1.4M",
      "Artist", "artist 7", "General", "smile 3.", "12", "" }

RawTexts == { join(q, ",") : q \in SeqsUpTo(SegmentPool, MaxSegments) \ { << >> } }

InitClean ==
    /\ managerIdle
    /\ lastOp = "start"
    /\ argTags = << >>
    /\ result = << >>
    /\ input = ""
    /\ valid = FALSE
    /\ success = FALSE
    /\ pageIdle
    /\ rawText \in RawTexts
    /\ cleaned = << >>

Clean ==
    /\ lastOp = "start"
    /\ cleaned' = clean(rawText)
    /\ result' = clean(rawText)
    /\ lastOp' = "clean"
    /\ UNCHANGED << managerVars, argTags, filtered, groupRuns, input, valid, rawText, importVars, pageVars >>

\* clean(cleaned.join(', '))
CleanAgain ==
    /\ lastOp = "clean"
    /\ result' = clean(join(cleaned, ", "))
    /\ lastOp' = "cleanAgain"
    /\ UNCHANGED << managerVars, argTags, filtered, groupRuns, cleanerVars, importVars, pageVars >>

NextClean == Clean \/ CleanAgain

SpecClean == InitClean /\ [][NextClean]_vars

(***************************************************************************)
(* ContentExtractor.extractDanbooru and extractGelbooru as functions of    *)
(* their argument.                                                         *)
(***************************************************************************)
LinePool == { "?", " ? ", "hat 1.2k", "Artist", "" }

DanbooruTexts == { join(q, "\n") : q \in SeqsUpTo(LinePool, MaxLines) \ { << >> } }

GelbooruSegmentPool ==
    { "Artist", " hat 12Tag", " x 5", " Tag x 5", " Tag 5", " red hat 3", "" }

GelbooruTexts ==
    { join(q, "?") : q \in SeqsUpTo(GelbooruSegmentPool, MaxSegments) \ { << >> } }

InitExtract ==
    /\ managerIdle
    /\ lastOp = "start"
    /\ argTags = << >>
    /\ result = << >>
    /\ input \in DanbooruTexts \cup GelbooruTexts
    /\ valid = FALSE
    /\ success = FALSE
    /\ pageIdle
    /\ rawText = ""
    /\ cleaned = << >>

ExtractDanbooru ==
    /\ lastOp = "start"
    /\ rawText' = extractDanbooru(input)
    /\ lastOp' = "extractDanbooru"
    /\ UNCHANGED << managerVars, argTags, result, filtered, groupRuns, input, valid, cleaned, importVars, pageVars >>

ExtractGelbooru ==
    /\ lastOp = "start"
    /\ rawText' = extractGelbooru(input)
    /\ lastOp' = "extractGelbooru"
    /\ UNCHANGED << managerVars, argTags, result, filtered, groupRuns, input, valid, cleaned, importVars, pageVars >>

NextExtract == ExtractDanbooru \/ ExtractGelbooru

SpecExtract == InitExtract /\ [][NextExtract]_vars

(***************************************************************************)
(* Both simplification passes applied to a list and then to their own      *)
(* output.  input keeps, as text, the list the first pass received.        *)
(***************************************************************************)
InitSimplifyTwice ==
    /\ managerIdle
    /\ lastOp = "start"
    /\ argTags \in SimplifyInputs
    /\ result = << >>
    /\ input = join(argTags, ", ")
    /\ valid = FALSE
    /\ success = FALSE
    /\ pageIdle
    /\ rawText = ""
    /\ cleaned = << >>

GroupedSimplifyTags ==
    /\ lastOp = "start"
    /\ result' = groupedSimplifyTags(argTags)
    /\ lastOp' = "_simplifyTags"
    /\ UNCHANGED << managerVars, argTags, filtered, groupRuns, cleanerVars, importVars, pageVars >>

\* the pass that just ran, applied to what it returned
SimplifyTagsAgain ==
    /\ lastOp = "simplifyTags"
    /\ argTags' = result
    /\ result' = simplifyTags(result)
    /\ lastOp' = "simplifyTags again"
    /\ UNCHANGED << managerVars, filtered, groupRuns, cleanerVars, importVars, pageVars >>

GroupedSimplifyTagsAgain ==
    /\ lastOp = "_simplifyTags"
    /\ argTags' = result
    /\ result' = groupedSimplifyTags(result)
    /\ lastOp' = "_simplifyTags again"
    /\ UNCHANGED << managerVars, filtered, groupRuns, cleanerVars, importVars, pageVars >>

NextSimplifyTwice ==
    \/ SimplifyTags
    \/ GroupedSimplifyTags
    \/ SimplifyTagsAgain
    \/ GroupedSimplifyTagsAgain

SpecSimplifyTwice == InitSimplifyTwice /\ [][NextSimplifyTwice]_vars

(***************************************************************************)
(* FormatDetector.detect as a function of its argument.                    *)
(***************************************************************************)
DetectPieces == { "hat", "?", "\n", "Tag?", "ARTIST?", "Tag" }

RECURSIVE concat(_)
concat(pieces) ==
    IF Len(pieces) = 0 THEN "" ELSE pieces[1] \o concat(Tail(pieces))

DetectInputs == { concat(q) : q \in SeqsUpTo(DetectPieces, MaxPieces) }

InitDetect ==
    /\ managerIdle
    /\ lastOp = "start"
    /\ argTags = << >>
    /\ result = << >>
    /\ input \in DetectInputs
    /\ valid = FALSE
    /\ success = FALSE
    /\ rawText = ""
    /\ cleaned = << >>
    /\ format = "none"
    /\ oldSettings = NoOldSettings
    /\ display = InitialDisplay
    /\ thrown = FALSE
    /\ isLoading = FALSE
    /\ currentIndex = 0 - 1
    /\ now = 0
    /\ unlockAt = NoTimer

Detect ==
    /\ lastOp = "start"
    /\ format' = detect(input)
    /\ lastOp' = "detect"
    /\ UNCHANGED << managerVars, argTags, result, filtered, groupRuns, cleanerVars,
                    importVars, oldSettings, uiVars, exampleVars >>

\* extract(input, detect(input)), as convert calls it
Extract ==
    /\ lastOp = "start"
    /\ format' = detect(input)
    /\ rawText' = extract(input, detect(input))
    /\ lastOp' = "extract"
    /\ UNCHANGED << managerVars, argTags, result, filtered, groupRuns, input, valid,
                    cleaned, importVars, oldSettings, uiVars, exampleVars >>

NextDetect == Detect \/ Extract

SpecDetect == InitDetect /\ [][NextDetect]_vars

(***************************************************************************)
(* GroupedFilterManager._isValidReplacement as a function of its argument. *)
(***************************************************************************)
ReplacementChars == { "a", ",", " ", "\t" }

RECURSIVE StringsUpTo(_, _)
StringsUpTo(chars, n) ==
    IF n = 0 THEN { "" }
    ELSE LET shorter == StringsUpTo(chars, n - 1)
         IN  shorter \cup { s \o c : s \in shorter, c \in chars }

ReplacementStrings == StringsUpTo(ReplacementChars, MaxReplacementLen)

InitValidate ==
    /\ managerIdle
    /\ lastOp = "start"
    /\ argTags = << >>
    /\ result = << >>
    /\ input \in ReplacementStrings
    /\ valid = FALSE
    /\ success = FALSE
    /\ pageIdle
    /\ rawText = ""
    /\ cleaned = << >>

IsValidReplacement ==
    /\ lastOp = "start"
    /\ valid' = isValidReplacement(input)
    /\ lastOp' = "isValidReplacement"
    /\ UNCHANGED << managerVars, argTags, result, filtered, groupRuns,
                    input, rawText, cleaned, importVars, pageVars >>

ParseReplacementString ==
    /\ lastOp = "start"
    /\ result' = parseReplacementString(input)
    /\ lastOp' = "parseReplacementString"
    /\ UNCHANGED << managerVars, argTags, filtered, groupRuns, cleanerVars, importVars, pageVars >>

NextValidate == IsValidReplacement \/ ParseReplacementString

SpecValidate == InitValidate /\ [][NextValidate]_vars

(***************************************************************************)
(* GroupedFilterManager: the group operations as functions of the group    *)
(* list.  The field collapsed of a group plays no part in any operation    *)
(* below and is left out of the records.                                   *)
(***************************************************************************)
\* DEFAULT_GROUP_NAME_PREFIX (written in ASCII)
DEFAULT_GROUP_NAME_PREFIX == "group"

\* the suffix duplicateGroup appends to the name (written in ASCII)
COPY_SUFFIX == "(copy)"

\* String(n) for the one-digit numbers the model needs
digitString(n) == Char("0123456789", n + 1)

\* generateUUID() returns an identifier no group of the manager carries;
\* the identifiers of configuration files lie outside its range
generateUUID(gs) ==
    SetMin({ id \in 1..(Len(gs) + 1) : \A i \in 1..Len(gs) : gs[i].id # id })

\* createDefaultGroup(name) with the identifier generateUUID returned
createDefaultGroup(id, name) ==
    [id |-> id, name |-> name, enabled |-> TRUE, keywords |-> << >>,
     replacement |-> "", currentMatchCount |-> 0]

\* this.groups.findIndex(g => g.id === groupId), 0-based, -1 when absent
findIndex(gs, groupId) ==
    LET hits == { i \in 1..Len(gs) : gs[i].id = groupId }
    IN  IF hits = {} THEN -1 ELSE SetMin(hits) - 1

\* the group list after addGroup() when generateUUID returns id
addGroup(gs, id) ==
    Append(gs, createDefaultGroup(id,
        DEFAULT_GROUP_NAME_PREFIX \o " " \o digitString(Len(gs) + 1)))

\* the group list after duplicateGroup(groupId) when generateUUID returns id
duplicateGroup(gs, groupId, id) ==
    LET sourceIndex == findIndex(gs, groupId)
    IN  IF sourceIndex < 0 THEN gs
        ELSE LET sourceGroup == gs[sourceIndex + 1]
                 duplicatedGroup ==
                     [sourceGroup EXCEPT !.id = id,
                                         !.name = sourceGroup.name \o COPY_SUFFIX,
                                         !.currentMatchCount = 0]
             IN  splice(gs, sourceIndex + 1, << duplicatedGroup >>)

\* the group list after deleteGroup(groupId)
deleteGroup(gs, groupId) ==
    LET index == findIndex(gs, groupId)
    IN  IF index < 0 THEN gs
        ELSE SubSeq(gs, 1, index) \o SubSeq(gs, index + 2, Len(gs))

\* the first loop of reorderGroups: the groups found for the given ids
RECURSIVE pickGroups(_, _)
pickGroups(gs, groupIds) ==
    IF Len(groupIds) = 0 THEN << >>
    ELSE (IF findIndex(gs, groupIds[1]) >= 0
          THEN << gs[findIndex(gs, groupIds[1]) + 1] >> ELSE << >>)
         \o pickGroups(gs, Tail(groupIds))

\* the second loop of reorderGroups over the groups from index i on
RECURSIVE addMissingGroups(_, _, _)
addMissingGroups(gs, newGroups, i) ==
    IF i > Len(gs) THEN newGroups
    ELSE addMissingGroups(gs,
            IF findIndex(newGroups, gs[i].id) < 0
            THEN Append(newGroups, gs[i]) ELSE newGroups,
            i + 1)

reorderGroups(gs, groupIds) == addMissingGroups(gs, pickGroups(gs, groupIds), 1)

\* the identifier that stands for null, the default argument of clearMatchCounts
NullId == 0

\* the group list after clearMatchCounts(groupId)
clearMatchCounts(gs, groupId) ==
    IF groupId # NullId
    THEN LET index == findIndex(gs, groupId)
         IN  IF index < 0 THEN gs
             ELSE [gs EXCEPT ![index + 1].currentMatchCount = 0]
    ELSE [i \in 1..Len(gs) |-> [gs[i] EXCEPT !.currentMatchCount = 0]]

(***************************************************************************)
(* GroupedFilterManager.importConfig.  A configuration file is the parsed  *)
(* JSON object [masterEnabled, simplifyEnabled, groups]; a group without   *)
(* an id carries the id NullId.                                            *)
(***************************************************************************)
\* the name _migrateConfigSchema gives a group whose name is empty
\* (written in ASCII)
UNNAMED_GROUP == "unnamed"

\* A document handed to importConfig is a record.  A text JSON.parse
\* rejects has the field syntaxError; a parsed object has the fields its
\* JSON text has, so a field of the wrong type or absent from the text is
\* absent from the record.
jsonParses(document) == "syntaxError" \notin DOMAIN document

\* object[key] ?? fallback
fieldOr(object, key, fallback) ==
    IF key \in DOMAIN object THEN object[key] ELSE fallback

\* a validation that looks at the group ids only
validateImportConfigIdsOnly(config) ==
    /\ "masterEnabled" \in DOMAIN config
    /\ "groups" \in DOMAIN config
    /\ \A i \in 1..Len(config.groups) : fieldOr(config.groups[i], "id", NullId) # NullId

\* validateImportConfig(config).valid
validateImportConfig(config) ==
    /\ "masterEnabled" \in DOMAIN config
    /\ "groups" \in DOMAIN config
    /\ \A i \in 1..Len(config.groups) :
          /\ fieldOr(config.groups[i], "id", NullId) # NullId
          /\ "name" \in DOMAIN config.groups[i]
          /\ "keywords" \in DOMAIN config.groups[i]

\* one group of _migrateConfigSchema(config).groups
migratedGroup(group) ==
    [id |-> group.id,
     name |-> IF fieldOr(group, "name", "") = "" THEN UNNAMED_GROUP ELSE group.name,
     enabled |-> fieldOr(group, "enabled", TRUE),
     keywords |-> fieldOr(group, "keywords", << >>),
     replacement |-> fieldOr(group, "replacement", ""),
     currentMatchCount |-> fieldOr(group, "currentMatchCount", 0)]

\* _migrateConfigSchema(config)
migrateConfigSchema(config) ==
    [masterEnabled |-> config.masterEnabled,
     simplifyEnabled |-> fieldOr(config, "simplifyEnabled", FALSE),
     groups |-> [i \in 1..Len(config.groups) |-> migratedGroup(config.groups[i])]]

\* append mode: gs followed by the imported groups, each under a new
\* identifier and with no counted matches
RECURSIVE appendImported(_, _)
appendImported(gs, imported) ==
    IF Len(imported) = 0 THEN gs
    ELSE appendImported(
            Append(gs, [imported[1] EXCEPT !.id = generateUUID(gs),
                                           !.currentMatchCount = 0]),
            Tail(imported))

\* the manager's configuration after importConfig(configJson, append)
\* and the success field of what it returned
importConfig(master, simplify, gs, config, append) ==
    IF ~jsonParses(config)
    THEN [success |-> FALSE,
          masterEnabled |-> master, simplifyEnabled |-> simplify, groups |-> gs]
    ELSE IF ~validateImportConfig(config)
    THEN [success |-> FALSE,
          masterEnabled |-> master, simplifyEnabled |-> simplify, groups |-> gs]
    ELSE LET migrated == migrateConfigSchema(config)
         IN  IF append
             THEN [success |-> TRUE,
                   masterEnabled |-> master, simplifyEnabled |-> simplify,
                   groups |-> appendImported(gs, migrated.groups)]
             ELSE [success |-> TRUE,
                   masterEnabled |-> migrated.masterEnabled,
                   simplifyEnabled |-> migrated.simplifyEnabled,
                   groups |-> migrated.groups]

(***************************************************************************)
(* TagConverter.convert: detection, extraction, cleaning, filtering.       *)
(***************************************************************************)
\* the tag list convert hands to applyFilter
convertCleanedTags(text) ==
    clean(extract(trim(text), detect(trim(text))))

(***************************************************************************)
(* The manager with all its configuration operations and convert.          *)
(***************************************************************************)
FileGroup(id, name, keywords, replacement, count) ==
    [id |-> id, name |-> name, enabled |-> TRUE, keywords |-> keywords,
     replacement |-> replacement, currentMatchCount |-> count]

\* an exported configuration with one group, its name erased
FileHats ==
    [masterEnabled |-> TRUE, simplifyEnabled |-> FALSE,
     groups |-> << FileGroup(101, "", << "hat" >>, "Cap", 0) >>]

\* a hand-edited configuration: one group pasted twice
FileTwins ==
    [masterEnabled |-> FALSE, simplifyEnabled |-> TRUE,
     groups |-> << FileGroup(101, "hats", << "hat" >>, "", 1),
                   FileGroup(101, "hats", << "hat" >>, "", 1) >>]

\* a configuration validateImportConfig rejects: a group without id
FileNoId ==
    [masterEnabled |-> TRUE, simplifyEnabled |-> TRUE,
     groups |-> << FileGroup(NullId, "hats", << "hat" >>, "", 0) >>]

\* a text that is not JSON
FileNotJson == [syntaxError |-> TRUE]

\* documents validateImportConfig rejects: no boolean masterEnabled, no
\* array groups, a group without a string name, a group without an array
\* of keywords
FileNoMaster ==
    [simplifyEnabled |-> TRUE,
     groups |-> << FileGroup(101, "hats", << "hat" >>, "", 0) >>]

FileNoGroups == [masterEnabled |-> TRUE, simplifyEnabled |-> TRUE]

FileNoName ==
    [masterEnabled |-> TRUE, simplifyEnabled |-> TRUE,
     groups |-> << [id |-> 101, enabled |-> TRUE, keywords |-> << "hat" >>,
                    replacement |-> "", currentMatchCount |-> 0] >>]

FileNoKeywords ==
    [masterEnabled |-> TRUE, simplifyEnabled |-> TRUE,
     groups |-> << [id |-> 101, name |-> "hats", enabled |-> TRUE,
                    replacement |-> "", currentMatchCount |-> 0] >>]

ImportFiles ==
    { FileHats, FileTwins, FileNoId, FileNotJson, FileNoMaster, FileNoGroups,
      FileNoName, FileNoKeywords }

\* the number of groups importConfig(config, append) would leave
groupsAfterImport(gs, config, append) ==
    IF jsonParses(config) /\ validateImportConfig(config)
    THEN Len(config.groups) + (IF append THEN Len(gs) ELSE 0)
    ELSE Len(gs)

\* the texts handed to convert
ConvertInputs ==
    { "", "hat, Cap", "Artist? hat 12Tag? red hat 3", "?\nhat 1.2k\n?\ncap" }

\* the group lists of the configurations the constructor finds in the store
ManagerStoredSpecs == { << >>, << GroupHatToCap >> }

\* the constructor: loadSettings finds a grouped configuration in the store,
\* or finds nothing and _initializeDefaults leaves the store untouched
InitManager ==
    /\ \/ \E c \in ManagerStoredSpecs, m \in BOOLEAN :
             \E gs \in { makeGroups(SubSeq(c, 1, IF Len(c) < MaxGroups THEN Len(c)
                                                   ELSE MaxGroups)) } :
                /\ storedConfig = savedSettings(m, FALSE, gs)
                /\ masterEnabled = m
                /\ simplifyEnabled = FALSE
                /\ groups = gs
       \/ /\ storedConfig = NoStoredConfig
          /\ masterEnabled = FALSE
          /\ simplifyEnabled = FALSE
          /\ groups = << >>
    /\ lastTotalFilteredCount = 0
    /\ lastSimplifiedCount = 0
    /\ lastOp = "constructor"
    /\ argTags = << >>
    /\ result = << >>
    /\ filtered = << >>
    /\ groupRuns = << >>
    /\ input = ""
    /\ valid = FALSE
    /\ success = FALSE
    /\ pageIdle
    /\ rawText = ""
    /\ cleaned = << >>

\* sequences over S, at most n long, that name nothing twice
DistinctSeqs(S, n) ==
    { q \in SeqsUpTo(S, n) : \A i, j \in 1..Len(q) : q[i] = q[j] => i = j }

\* the id lists handed to reorderGroups: the cards of the groups in any
\* order, the last card possibly missing or carrying an id no group has
ReorderLists ==
    LET ids == { groups[i].id : i \in 1..Len(groups) }
        full == { q \in DistinctSeqs(ids, Len(groups)) : Len(q) = Cardinality(ids) }
    IN  full \cup { SubSeq(q, 1, Len(q) - 1) : q \in full \ { << >> } }
             \cup { [q EXCEPT ![Len(q)] = NullId] : q \in full \ { << >> } }

KnownIds == { groups[i].id : i \in 1..Len(groups) } \cup { NullId }

AddGroup ==
    /\ Len(groups) < MaxGroups
    /\ groups' = addGroup(groups, generateUUID(groups))
    /\ storedConfig' = savedSettings(masterEnabled, simplifyEnabled, groups')
    /\ lastOp' = "addGroup"
    /\ noCall
    /\ UNCHANGED << masterEnabled, simplifyEnabled, lastTotalFilteredCount,
                    lastSimplifiedCount, cleanerVars, pageVars >>

DuplicateGroup(groupId) ==
    /\ Len(groups) < MaxGroups
    /\ \A i \in 1..Len(groups) :
          groups[i].id = groupId => Len(groups[i].name \o COPY_SUFFIX) <= MaxNameLen
    /\ IF findIndex(groups, groupId) >= 0
       THEN /\ groups' = duplicateGroup(groups, groupId, generateUUID(groups))
            /\ storedConfig' = savedSettings(masterEnabled, simplifyEnabled, groups')
       ELSE UNCHANGED << groups, storedConfig >>
    /\ lastOp' = "duplicateGroup"
    /\ noCall
    /\ UNCHANGED << masterEnabled, simplifyEnabled, lastTotalFilteredCount,
                    lastSimplifiedCount, cleanerVars, pageVars >>

DeleteGroup(groupId) ==
    /\ IF findIndex(groups, groupId) >= 0
       THEN /\ groups' = deleteGroup(groups, groupId)
            /\ storedConfig' = savedSettings(masterEnabled, simplifyEnabled, groups')
       ELSE UNCHANGED << groups, storedConfig >>
    /\ lastOp' = "deleteGroup"
    /\ noCall
    /\ UNCHANGED << masterEnabled, simplifyEnabled, lastTotalFilteredCount,
                    lastSimplifiedCount, cleanerVars, pageVars >>

ReorderGroups(groupIds) ==
    /\ groups' = reorderGroups(groups, groupIds)
    /\ storedConfig' = savedSettings(masterEnabled, simplifyEnabled, groups')
    /\ lastOp' = "reorderGroups"
    /\ noCall
    /\ UNCHANGED << masterEnabled, simplifyEnabled, lastTotalFilteredCount,
                    lastSimplifiedCount, cleanerVars, pageVars >>

ClearMatchCounts(groupId) ==
    /\ groups' = clearMatchCounts(groups, groupId)
    /\ storedConfig' = savedSettings(masterEnabled, simplifyEnabled, groups')
    /\ lastOp' = "clearMatchCounts"
    /\ noCall
    /\ UNCHANGED << masterEnabled, simplifyEnabled, lastTotalFilteredCount,
                    lastSimplifiedCount, cleanerVars, pageVars >>

\* importConfig(configJson, append); saveSettings runs in the finally block
ImportConfig(config, append) ==
    /\ groupsAfterImport(groups, config, append) <= MaxGroups
    /\ \E after \in { importConfig(masterEnabled, simplifyEnabled, groups,
                                   config, append) } :
          /\ success' = after.success
          /\ masterEnabled' = after.masterEnabled
          /\ simplifyEnabled' = after.simplifyEnabled
          /\ groups' = after.groups
          /\ storedConfig' = savedSettings(after.masterEnabled, after.simplifyEnabled,
                                           after.groups)
    /\ lastOp' = "importConfig"
    /\ argTags' = << >>
    /\ result' = << >>
    /\ filtered' = << >>
    /\ groupRuns' = << >>
    /\ UNCHANGED << lastTotalFilteredCount, lastSimplifiedCount, cleanerVars, pageVars >>

\* What convert is called with: a value with its typeof, and the stage
\* that throws during the call ("none" when no stage throws).
ConvertArguments ==
    { [type |-> "string", value |-> text] : text \in ConvertInputs }
    \cup { [type |-> "undefined", value |-> ""], [type |-> "number", value |-> "7"] }

ConvertFaults ==
    { "none", "detect", "extract", "clean", "applyFilter",
      "updateFormatStatus", "updateFilterStatus" }

\* !input || typeof input !== 'string'
isEmptyInput(arg) == arg.type # "string" \/ arg.value = ""

\* updateFormatStatus(format, tagCount)
formatStatusShown(shown, detected, tagCount) ==
    [shown EXCEPT !.format = detected, !.tagCount = tagCount]

\* updateFilterStatus(status)
filterStatusShown(shown, currentFilteredCount, currentSimplifiedCount) ==
    [shown EXCEPT !.filteredCount = currentFilteredCount,
                  !.simplifiedCount = currentSimplifiedCount]

\* the empty-input branch of the page's convert() function: the counts are
\* reset and the format status is hidden
emptyInputOutcomeReset(gs, total, simplified, shown) ==
    [groups |-> [i \in 1..Len(gs) |-> [gs[i] EXCEPT !.currentMatchCount = 0]],
     lastTotalFilteredCount |-> 0,
     lastSimplifiedCount |-> 0,
     display |-> [shown EXCEPT !.format = "hidden", !.filteredCount = 0,
                               !.simplifiedCount = 0]]

\* the early return of TagConverter.convert: what the call leaves of the
\* groups, the totals and the display
emptyInputOutcome(gs, total, simplified, shown) ==
    [groups |-> gs, lastTotalFilteredCount |-> total,
     lastSimplifiedCount |-> simplified, display |-> shown]

\* a convert without a catch block: the error goes to the caller
rethrown(shown) == [display |-> shown, thrown |-> TRUE]

\* the catch block of convert: showError, return []
caught(shown) == [display |-> [shown EXCEPT !.error = TRUE], thrown |-> FALSE]

\* TagConverter.convert(arg), with the stage fault throwing
Convert(arg, fault) ==
    /\ lastOp' = "convert"
    /\ input' = arg
    /\ success' = FALSE
    /\ IF isEmptyInput(arg)
       THEN /\ fault = "none"
            /\ \E out \in { emptyInputOutcome(groups, lastTotalFilteredCount,
                                              lastSimplifiedCount, display) } :
                  /\ groups' = out.groups
                  /\ lastTotalFilteredCount' = out.lastTotalFilteredCount
                  /\ lastSimplifiedCount' = out.lastSimplifiedCount
                  /\ display' = out.display
            /\ argTags' = << >>
            /\ result' = << >>
            /\ filtered' = << >>
            /\ groupRuns' = << >>
            /\ thrown' = FALSE
       ELSE IF fault \in { "detect", "extract", "clean", "applyFilter" }
       THEN /\ \E end \in { caught(display) } :
                  /\ display' = end.display
                  /\ thrown' = end.thrown
            /\ argTags' = << >>
            /\ result' = << >>
            /\ filtered' = << >>
            /\ groupRuns' = << >>
            /\ UNCHANGED << groups, lastTotalFilteredCount, lastSimplifiedCount >>
       ELSE \E cleanedTags \in { convertCleanedTags(arg.value) } :
            \E out \in { applyFilter(masterEnabled, simplifyEnabled, groups,
                                     lastTotalFilteredCount, lastSimplifiedCount,
                                     cleanedTags) } :
               /\ argTags' = cleanedTags
               /\ groups' = out.groups
               /\ lastTotalFilteredCount' = out.lastTotalFilteredCount
               /\ lastSimplifiedCount' = out.lastSimplifiedCount
               /\ filtered' = out.filtered
               /\ groupRuns' = out.runs
               /\ IF fault = "updateFormatStatus"
                  THEN \E end \in { caught(display) } :
                          /\ display' = end.display
                          /\ thrown' = end.thrown
                          /\ result' = << >>
                  ELSE IF fault = "updateFilterStatus"
                  THEN \E end \in { caught(formatStatusShown(display,
                                        detect(trim(arg.value)), Len(out.result))) } :
                          /\ display' = end.display
                          /\ thrown' = end.thrown
                          /\ result' = << >>
                  ELSE /\ display' = filterStatusShown(
                                        formatStatusShown(display, detect(trim(arg.value)),
                                                          Len(out.result)),
                                        out.lastTotalFilteredCount,
                                        out.lastSimplifiedCount)
                       /\ thrown' = FALSE
                       /\ result' = out.result
    /\ UNCHANGED << masterEnabled, simplifyEnabled, storedConfig, valid, rawText,
                    cleaned, format, oldSettings, exampleVars >>

(***************************************************************************)
(* Startup: the constructor and loadSettings, run at every page load.      *)
(***************************************************************************)
\* the name of the group _migrateFromOldSettings creates (written in ASCII)
MIGRATED_GROUP_NAME == "group 1"

\* one group of _loadGroupedSettings
loadedGroup(group, id) ==
    [id |-> IF fieldOr(group, "id", NullId) = NullId THEN id ELSE group.id,
     name |-> IF fieldOr(group, "name", "") = "" THEN UNNAMED_GROUP ELSE group.name,
     enabled |-> fieldOr(group, "enabled", TRUE),
     keywords |-> fieldOr(group, "keywords", << >>),
     replacement |-> fieldOr(group, "replacement", ""),
     currentMatchCount |-> fieldOr(group, "currentMatchCount", 0)]

RECURSIVE loadedGroups(_, _)
loadedGroups(stored, gs) ==
    IF Len(stored) = 0 THEN gs
    ELSE loadedGroups(Tail(stored), Append(gs, loadedGroup(stored[1], generateUUID(gs))))

\* the groups _migrateFromOldSettings makes of the legacy keywords
migratedGroups(old) ==
    IF Len(fieldOr(old, "keywords", << >>)) > 0
    THEN << [createDefaultGroup(generateUUID(<< >>), MIGRATED_GROUP_NAME)
                EXCEPT !.keywords = old.keywords] >>
    ELSE << >>

\* a migration that leaves the saveSettings call out
migratedWithoutSave(stored, old) ==
    [branch |-> "_migrateFromOldSettings",
     masterEnabled |-> fieldOr(old, "enabled", FALSE),
     simplifyEnabled |-> fieldOr(old, "simplifyEnabled", FALSE),
     groups |-> migratedGroups(old),
     storedConfig |-> stored]

\* _migrateFromOldSettings when the legacy key holds a configuration
migrated(stored, old) ==
    [branch |-> "_migrateFromOldSettings",
     masterEnabled |-> fieldOr(old, "enabled", FALSE),
     simplifyEnabled |-> fieldOr(old, "simplifyEnabled", FALSE),
     groups |-> migratedGroups(old),
     storedConfig |-> savedSettings(fieldOr(old, "enabled", FALSE),
                                    fieldOr(old, "simplifyEnabled", FALSE),
                                    migratedGroups(old))]

\* the manager and the store after the constructor ran loadSettings with
\* stored under the grouped key and old under the legacy key
loadSettings(stored, old) ==
    IF "groups" \in DOMAIN stored
    THEN [branch |-> "_loadGroupedSettings",
          masterEnabled |-> fieldOr(stored, "masterEnabled", FALSE),
          simplifyEnabled |-> fieldOr(stored, "simplifyEnabled", FALSE),
          groups |-> loadedGroups(stored.groups, << >>),
          storedConfig |-> stored]
    ELSE IF "absent" \notin DOMAIN old
    THEN migrated(stored, old)
    ELSE [branch |-> "_initializeDefaults",
          masterEnabled |-> FALSE, simplifyEnabled |-> FALSE, groups |-> << >>,
          storedConfig |-> stored]

\* what the legacy key may hold at the first start
LegacyConfigs ==
    { NoOldSettings,
      [enabled |-> TRUE, simplifyEnabled |-> TRUE, keywords |-> << "hat", "cap" >>],
      [enabled |-> FALSE, simplifyEnabled |-> FALSE, keywords |-> << "cap", "h.t", "hat" >>],
      [enabled |-> TRUE, keywords |-> << "hat" >>],
      [enabled |-> TRUE, simplifyEnabled |-> FALSE, keywords |-> << >>] }

\* the first start of the page: nothing under the grouped key
InitStartup ==
    /\ oldSettings \in LegacyConfigs
    /\ \E loaded \in { loadSettings(NoStoredConfig, oldSettings) } :
          /\ masterEnabled = loaded.masterEnabled
          /\ simplifyEnabled = loaded.simplifyEnabled
          /\ groups = loaded.groups
          /\ storedConfig = loaded.storedConfig
          /\ lastOp = loaded.branch
    /\ lastTotalFilteredCount = 0
    /\ lastSimplifiedCount = 0
    /\ argTags = << >>
    /\ result = << >>
    /\ filtered = << >>
    /\ groupRuns = << >>
    /\ input = ""
    /\ valid = FALSE
    /\ success = FALSE
    /\ rawText = ""
    /\ cleaned = << >>
    /\ format = "none"
    /\ display = InitialDisplay
    /\ thrown = FALSE
    /\ isLoading = FALSE
    /\ currentIndex = 0 - 1
    /\ now = 0
    /\ unlockAt = NoTimer

\* a later start of the page: a new manager is constructed over the store
LoadSettings ==
    /\ \E loaded \in { loadSettings(storedConfig, oldSettings) } :
          /\ masterEnabled' = loaded.masterEnabled
          /\ simplifyEnabled' = loaded.simplifyEnabled
          /\ groups' = loaded.groups
          /\ storedConfig' = loaded.storedConfig
          /\ lastOp' = loaded.branch
    /\ lastTotalFilteredCount' = 0
    /\ lastSimplifiedCount' = 0
    /\ noCall
    /\ UNCHANGED << cleanerVars, pageVars >>

NextStartup ==
    \/ LoadSettings
    \/ \E b \in BOOLEAN : SetMasterEnabled(b)
    \/ AddGroup
    \/ \E id \in KnownIds : DeleteGroup(id)
    \/ \E id \in KnownIds, u \in GroupUpdates : UpdateGroup(id, u)

SpecStartup == InitStartup /\ [][NextStartup]_vars

\* the configuration operations alone
NextConfig ==
    \/ \E b \in BOOLEAN : SetMasterEnabled(b)
    \/ \E b \in BOOLEAN : SetSimplifyEnabled(b)
    \/ AddGroup
    \/ \E id \in KnownIds : DuplicateGroup(id)
    \/ \E id \in KnownIds : DeleteGroup(id)
    \/ \E id \in KnownIds, u \in GroupUpdates : UpdateGroup(id, u)
    \/ \E ids \in ReorderLists : ReorderGroups(ids)
    \/ \E config \in ImportFiles, append \in BOOLEAN : ImportConfig(config, append)

SpecConfig == InitManager /\ [][NextConfig]_vars

\* convert between the configuration operations that keep or shrink the
\* group list, or replace it by an imported one
NextConvert ==
    \/ \E b \in BOOLEAN : SetMasterEnabled(b)
    \/ \E b \in BOOLEAN : SetSimplifyEnabled(b)
    \/ \E id \in KnownIds : DeleteGroup(id)
    \/ \E id \in KnownIds, u \in GroupUpdates : UpdateGroup(id, u)
    \/ \E id \in KnownIds : ClearMatchCounts(id)
    \/ \E config \in ImportFiles : ImportConfig(config, FALSE)
    \/ \E text \in ConvertInputs : Convert([type |-> "string", value |-> text], "none")

SpecConvert == InitManager /\ [][NextConvert]_vars

\* convert with any argument and with any stage throwing, between toggles
\* of the master switch
NextConvertFaults ==
    \/ \E b \in BOOLEAN : SetMasterEnabled(b)
    \/ \E arg \in ConvertArguments, fault \in ConvertFaults : Convert(arg, fault)

SpecConvertFaults == InitManager /\ [][NextConvertFaults]_vars

(***************************************************************************)
(* The keyword handlers of the page.  They edit group.keywords in place    *)
(* (push, splice) and hand the same array back to updateGroup, so which    *)
(* array object a group's keywords field refers to matters here: the field *)
(* keywordsArray of a group names that object, and every group referring   *)
(* to an array shows its contents.                                         *)
(***************************************************************************)
\* JSON.parse in loadSettings builds an array of its own for every group
withOwnArrays(gs) ==
    [i \in 1..Len(gs) |->
        [f \in DOMAIN gs[i] \cup { "keywordsArray" } |->
            IF f = "keywordsArray" THEN i ELSE gs[i][f]]]

\* the contents of an array after an in-place edit, seen through every
\* group whose keywords field refers to it
writeArray(gs, array, keywords) ==
    [i \in 1..Len(gs) |->
        IF gs[i].keywordsArray = array THEN [gs[i] EXCEPT !.keywords = keywords]
        ELSE gs[i]]

\* for (const keyword of newKeywords)
\*     if (!group.keywords.includes(keyword)) group.keywords.push(keyword)
RECURSIVE pushNewKeywords(_, _)
pushNewKeywords(keywords, newKeywords) ==
    IF newKeywords = << >> THEN keywords
    ELSE pushNewKeywords(
             IF \E i \in 1..Len(keywords) : keywords[i] = Head(newKeywords)
             THEN keywords ELSE Append(keywords, Head(newKeywords)),
             Tail(newKeywords))

\* group.keywords.splice(index, 1), index 0-based
spliceOne(keywords, index) ==
    SelectIdx(keywords, { i \in 1..Len(keywords) : i # index + 1 }, 1)

\* the page's convert() while the input box is empty: the format status is
\* hidden and the counts are reset
convertEmptyInputBox(gs, shown) ==
    [groups |-> [i \in 1..Len(gs) |-> [gs[i] EXCEPT !.currentMatchCount = 0]],
     display |-> [shown EXCEPT !.format = "hidden", !.filteredCount = 0,
                               !.simplifiedCount = 0]]

\* what is typed into a keyword input before Enter
KeywordInputs == { "cap", " hat ,bow", " , " }

\* the groups a session starts with
KeywordGroupSpecs == { << GroupHat >>, << GroupHatToCap >>, << GroupEmpty >> }

InitKeywords ==
    /\ \E c \in KeywordGroupSpecs, m \in BOOLEAN :
          \E gs \in { withOwnArrays(makeGroups(c)) } :
             /\ storedConfig = savedSettings(m, FALSE, gs)
             /\ masterEnabled = m
             /\ simplifyEnabled = FALSE
             /\ groups = gs
    /\ lastTotalFilteredCount = 0
    /\ lastSimplifiedCount = 0
    /\ lastOp = "constructor"
    /\ argTags = << >>
    /\ result = << >>
    /\ filtered = << >>
    /\ groupRuns = << >>
    /\ input = ""
    /\ valid = FALSE
    /\ success = FALSE
    /\ pageIdle
    /\ rawText = ""
    /\ cleaned = << >>

\* addKeywordFromInput(input) on the card of group groupId, the page's input
\* box being empty
AddKeywordFromInput(groupId, value) ==
    /\ lastOp' = "addKeywordFromInput"
    /\ noCall
    /\ IF trim(value) # "" /\ findIndex(groups, groupId) >= 0
       THEN \E group \in { groups[findIndex(groups, groupId) + 1] } :
            \E gs \in { writeArray(groups, group.keywordsArray,
                            pushNewKeywords(group.keywords,
                                            trimNonEmpty(split(trim(value), ",")))) } :
            \E after \in { convertEmptyInputBox(gs, display) } :
               /\ storedConfig' = savedSettings(masterEnabled, simplifyEnabled, gs)
               /\ groups' = after.groups
               /\ display' = after.display
               /\ lastTotalFilteredCount' = 0
               /\ lastSimplifiedCount' = 0
       ELSE UNCHANGED << groups, storedConfig, display, lastTotalFilteredCount,
                         lastSimplifiedCount >>
    /\ UNCHANGED << masterEnabled, simplifyEnabled, cleanerVars, format, oldSettings,
                    thrown, exampleVars >>

\* removeKeywordFromGroup(groupId, index), the page's input box being empty
RemoveKeywordFromGroup(groupId, index) ==
    /\ lastOp' = "removeKeywordFromGroup"
    /\ noCall
    /\ IF findIndex(groups, groupId) >= 0
       THEN \E group \in { groups[findIndex(groups, groupId) + 1] } :
            \E gs \in { writeArray(groups, group.keywordsArray,
                            spliceOne(group.keywords, index)) } :
            \E after \in { convertEmptyInputBox(gs, display) } :
               /\ storedConfig' = savedSettings(masterEnabled, simplifyEnabled, gs)
               /\ groups' = after.groups
               /\ display' = after.display
               /\ lastTotalFilteredCount' = 0
               /\ lastSimplifiedCount' = 0
       ELSE UNCHANGED << groups, storedConfig, display, lastTotalFilteredCount,
                         lastSimplifiedCount >>
    /\ UNCHANGED << masterEnabled, simplifyEnabled, cleanerVars, format, oldSettings,
                    thrown, exampleVars >>

\* the indices of the remove buttons the cards show
KeywordIndices ==
    UNION { 0..(Len(groups[i].keywords) - 1) : i \in 1..Len(groups) }

NextKeywords ==
    \/ \E id \in KnownIds : DuplicateGroup(id)
    \/ \E id \in KnownIds : DeleteGroup(id)
    \/ \E id \in KnownIds, value \in KeywordInputs : AddKeywordFromInput(id, value)
    \/ \E id \in KnownIds, index \in KeywordIndices : RemoveKeywordFromGroup(id, index)

SpecKeywords == InitKeywords /\ [][NextKeywords]_vars

(***************************************************************************)
(* reorderGroups called with any list of ids: the ids of the groups and    *)
(* an id no group has, in any order, with omissions and repetitions.       *)
(***************************************************************************)
ReorderArguments ==
    SeqsUpTo({ groups[i].id : i \in 1..Len(groups) } \cup { NullId }, MaxGroups)

NextReorder ==
    \/ AddGroup
    \/ \E id \in KnownIds : DeleteGroup(id)
    \/ \E id \in KnownIds, u \in GroupUpdates : UpdateGroup(id, u)
    \/ \E ids \in ReorderArguments :
          /\ Len(reorderGroups(groups, ids)) <= MaxGroups
          /\ ReorderGroups(ids)

SpecReorder == InitManager /\ [][NextReorder]_vars

(***************************************************************************)
(* ExampleManager: the example button, its click lock and the timer that   *)
(* releases it.  now is the time in ms; unlockAt is the time at which the  *)
(* pending setTimeout callback of loadExample is due, NoTimer when none    *)
(* is pending.  input is the text of the input box.                        *)
(***************************************************************************)
examples ==
    << [name |-> "Danbooru",
        content |-> "General\n?\n1boy 1.4M\n?\n1girl 6.1M\n?\noriginal 2.8M"],
       [name |-> "Gelbooru",
        content |-> "Artist? nekotokage 169Character? shirayuki tomoe 939Tag? 1girl 8032615? long hair 5441398? smile 3596391"],
       [name |-> "Standard",
        content |-> "masterpiece, best quality, 1girl, long hair, blue eyes, school uniform"] >>

\* the delay of the setTimeout that clears isLoading, in ms
LOCK_DELAY == 500

\* an index that stops at the last example instead of wrapping around
getNextExampleClamped(index) ==
    IF index + 1 >= Len(examples) THEN Len(examples) - 1 ELSE index + 1

\* this.currentIndex after getNextExample()
getNextExample(index) == (index + 1) % Len(examples)

\* the amounts of time that pass between two events, in ms
TimeSteps == { 100, 250 }

InitExample ==
    /\ \/ \E c \in ManagerStoredSpecs, m \in BOOLEAN :
             \E gs \in { makeGroups(SubSeq(c, 1, IF Len(c) < MaxGroups THEN Len(c)
                                                   ELSE MaxGroups)) } :
                /\ storedConfig = savedSettings(m, FALSE, gs)
                /\ masterEnabled = m
                /\ simplifyEnabled = FALSE
                /\ groups = gs
       \/ /\ storedConfig = NoStoredConfig
          /\ masterEnabled = FALSE
          /\ simplifyEnabled = FALSE
          /\ groups = << >>
    /\ lastTotalFilteredCount = 0
    /\ lastSimplifiedCount = 0
    /\ lastOp = "constructor"
    /\ argTags = << >>
    /\ result = << >>
    /\ filtered = << >>
    /\ groupRuns = << >>
    /\ input = ""
    /\ valid = FALSE
    /\ success = FALSE
    /\ pageIdle
    /\ rawText = ""
    /\ cleaned = << >>

\* ExampleManager.loadExample(): a click on the example button; the page's
\* convert() runs TagConverter.convert on the loaded text
LoadExample ==
    IF isLoading
    THEN /\ lastOp' = "loadExample while loading"
         /\ UNCHANGED << managerVars, argTags, result, filtered, groupRuns,
                         cleanerVars, importVars, pageVars >>
    ELSE /\ now + LOCK_DELAY <= MaxTime
         /\ lastOp' = "loadExample"
         /\ isLoading' = TRUE
         /\ currentIndex' = getNextExample(currentIndex)
         /\ \E content \in { examples[getNextExample(currentIndex) + 1].content } :
            \E trimmed \in { trim(content) } :
            \E cleanedTags \in { clean(extract(trimmed, detect(trimmed))) } :
            \E out \in { applyFilter(masterEnabled, simplifyEnabled, groups,
                                     lastTotalFilteredCount, lastSimplifiedCount,
                                     cleanedTags) } :
               /\ input' = content
               /\ groups' = out.groups
               /\ lastTotalFilteredCount' = out.lastTotalFilteredCount
               /\ lastSimplifiedCount' = out.lastSimplifiedCount
               /\ argTags' = cleanedTags
               /\ result' = out.result
               /\ filtered' = out.filtered
               /\ groupRuns' = out.runs
               /\ display' = filterStatusShown(
                                 formatStatusShown(display, detect(trimmed),
                                                   Len(out.result)),
                                 out.lastTotalFilteredCount, out.lastSimplifiedCount)
         /\ unlockAt' = now + LOCK_DELAY
         /\ UNCHANGED << masterEnabled, simplifyEnabled, storedConfig, valid, rawText,
                         cleaned, importVars, format, oldSettings, thrown, now >>

\* time passes; a timer that is due runs before time passes on
Tick(step) ==
    \E limit \in { IF unlockAt # NoTimer THEN unlockAt ELSE MaxTime } :
        /\ now < limit
        /\ now' = IF now + step < limit THEN now + step ELSE limit
        /\ UNCHANGED << managerVars, lastOp, argTags, result, filtered, groupRuns,
                        cleanerVars, importVars, format, oldSettings, display, thrown,
                        isLoading, currentIndex, unlockAt >>

\* the callback of the setTimeout in the finally block of loadExample
TimerFires ==
    /\ unlockAt # NoTimer
    /\ now >= unlockAt
    /\ isLoading' = FALSE
    /\ unlockAt' = NoTimer
    /\ lastOp' = "setTimeout callback"
    /\ UNCHANGED << managerVars, argTags, result, filtered, groupRuns,
                    cleanerVars, importVars, format, oldSettings, display, thrown,
                    currentIndex, now >>

NextExample ==
    \/ LoadExample
    \/ \E step \in TimeSteps : Tick(step)
    \/ TimerFires
    \/ \E b \in BOOLEAN : SetMasterEnabled(b)

\* time passes and the event loop runs the callbacks that are due
SpecExample ==
    /\ InitExample
    /\ [][NextExample]_vars
    /\ WF_vars(\E step \in TimeSteps : Tick(step))
    /\ WF_vars(TimerFires)

(***************************************************************************)
(* Properties of applyFilter (specification Spec).                         *)
(***************************************************************************)
afterApplyFilter == lastOp = "applyFilter"

isActive(g) == g.enabled /\ Len(g.keywords) > 0

\* what one group makes of a list
GroupEffect(tags, g) ==
    IF isActive(g) THEN applyGroupFilter(tags, g).filteredTags ELSE tags

\* the groups applied one after the other, the first group first
RECURSIVE FoldGroups(_, _)
FoldGroups(gs, tags) ==
    IF Len(gs) = 0 THEN tags
    ELSE FoldGroups(Tail(gs), GroupEffect(tags, Head(gs)))

GroupIndex(id) == CHOOSE i \in 1..Len(groups) : groups[i].id = id

\* C1: with masterEnabled true and one enabled group whose only keyword is
\* 'hat' (no anchors, no replacement), exactly the tags equal to 'hat'
\* ignoring case are removed and counted; tags that merely contain 'hat'
\* stay (['hat','red hat'] gives ['red hat'], match count 1).
C1_UnanchoredKeywordMatchesWholeTag ==
    (/\ afterApplyFilter
     /\ masterEnabled
     /\ Len(groups) = 1
     /\ groups[1].enabled
     /\ groups[1].keywords = << "hat" >>
     /\ groups[1].replacement = "")
    => /\ Range(filtered) = { t \in Range(argTags) : toLowerCase(t) # "hat" }
       /\ groups[1].currentMatchCount =
             Cardinality({ i \in 1..Len(argTags) : toLowerCase(argTags[i]) = "hat" })
       /\ argTags = << "hat", "red hat" >> => filtered = << "red hat" >>

\* C2: with masterEnabled true, applyFilter is the left-to-right fold of the
\* groups: every active group ran on the list the groups before it produced,
\* the list after the loop is the fold of the whole group list, and the
\* returned list is that fold (simplified when simplifyEnabled).
C2_SequentialFold ==
    (afterApplyFilter /\ masterEnabled)
    => /\ filtered = FoldGroups(groups, argTags)
       /\ result = IF simplifyEnabled THEN groupedSimplifyTags(filtered) ELSE filtered
       /\ \A k \in 1..Len(groupRuns) :
             groupRuns[k].input =
                FoldGroups(SubSeq(groups, 1, GroupIndex(groupRuns[k].id) - 1), argTags)

\* C2 witness: two active groups ran and the opposite order gives another list
C2_OrderMatters ==
    /\ afterApplyFilter
    /\ masterEnabled
    /\ Len(groups) = 2
    /\ Len(groupRuns) = 2
    /\ groupRuns[2].input # argTags
    /\ FoldGroups(<< groups[2], groups[1] >>, argTags) # filtered

\* the list C3 describes for one run of a group
ExpectedSplice(run, replacement) ==
    LET first == SetMin(run.matched)
        before == SelectIdx(run.input,
                     { i \in 1..Len(run.input) :
                         (i - 1) < first /\ (i - 1) \notin run.matched }, 1)
        after == SelectIdx(run.input,
                     { i \in 1..Len(run.input) :
                         (i - 1) > first /\ (i - 1) \notin run.matched }, 1)
    IN  before \o parseReplacementString(replacement) \o after

\* C3: for an active group with a matched tag and a valid non-empty
\* replacement, the list before deduplication is: the unmatched tags before
\* the smallest matched index, the replacement tokens as written, the
\* remaining unmatched tags; 'watermark' -> 'clean, safe' on
\* ['1girl','watermark','smile'] gives ['1girl','clean','safe','smile'].
C3_ReplacementSplicedAtFirstMatch ==
    (afterApplyFilter /\ masterEnabled)
    => /\ \A k \in 1..Len(groupRuns) :
             LET run == groupRuns[k]
                 g == groups[GroupIndex(run.id)]
             IN  (/\ run.matched # {}
                  /\ g.replacement # ""
                  /\ isValidReplacement(g.replacement))
                 => run.spliced = ExpectedSplice(run, g.replacement)
       /\ (/\ Len(groups) = 1
           /\ groups[1].enabled
           /\ groups[1].keywords = << "watermark" >>
           /\ groups[1].replacement = "clean, safe"
           /\ argTags = << "1girl", "watermark", "smile" >>)
          => filtered = << "1girl", "clean", "safe", "smile" >>

\* C3 witness: tokens were spliced between two unmatched tags
C3_SplicedInTheMiddle ==
    /\ afterApplyFilter
    /\ masterEnabled
    /\ \E k \in 1..Len(groupRuns) :
          LET run == groupRuns[k]
              g == groups[GroupIndex(run.id)]
          IN  /\ run.matched # {}
              /\ SetMin(run.matched) > 0
              /\ \E i \in 0..(Len(run.input) - 1) :
                    i > SetMin(run.matched) /\ i \notin run.matched
              /\ isValidReplacement(g.replacement)
              /\ Len(parseReplacementString(g.replacement)) = 2
              /\ Len(run.spliced) = Len(run.input) + 1

\* C4: when masterEnabled is false, applyFilter returns its argument and
\* leaves every group's match count, the total filtered count and the
\* simplified count as they were.
C4_MasterOffChangesNothing ==
    [][ (lastOp' = "applyFilter" /\ ~masterEnabled)
        => /\ result' = argTags'
           /\ groups' = groups
           /\ lastTotalFilteredCount' = lastTotalFilteredCount
           /\ lastSimplifiedCount' = lastSimplifiedCount ]_vars

\* C4 witness: applyFilter ran with the master switch off on a list the
\* groups would have changed, with counts of an earlier run still stored
C4_MasterOffWithStaleCounts ==
    /\ afterApplyFilter
    /\ ~masterEnabled
    /\ result = argTags
    /\ lastTotalFilteredCount > 0
    /\ \E i \in 1..Len(groups) : groups[i].currentMatchCount > 0
    /\ FoldGroups(groups, argTags) # argTags

\* C5 as claimed: during applyFilter with masterEnabled true a disabled
\* group keeps the match count it had before the call.
C5_DisabledGroupKeepsCount ==
    [][ (lastOp' = "applyFilter" /\ masterEnabled)
        => \A i \in 1..Len(groups) :
              ~groups[i].enabled
              => groups'[i].currentMatchCount = groups[i].currentMatchCount ]_vars

\* C5 amended: during applyFilter with masterEnabled true a disabled group
\* changes no tag (no run of it; the list after the loop is the fold of the
\* enabled groups alone) and its stored match count is set to 0.
C5_DisabledGroupSkippedAndZeroed ==
    (afterApplyFilter /\ masterEnabled)
    => /\ \A i \in 1..Len(groups) :
             ~groups[i].enabled
             => /\ groups[i].currentMatchCount = 0
                /\ \A k \in 1..Len(groupRuns) : groupRuns[k].id # groups[i].id
       /\ filtered = FoldGroups(SelectSeq(groups, LAMBDA g : g.enabled), argTags)

\* C5 witness: a disabled group whose keywords match a tag of the list
C5_DisabledGroupWouldMatch ==
    /\ afterApplyFilter
    /\ masterEnabled
    /\ \E i \in 1..Len(groups) :
          /\ ~groups[i].enabled
          /\ Len(groups[i].keywords) > 0
          /\ applyGroupFilter(argTags, groups[i]).matchCount > 0
          /\ \E t \in Range(argTags) : t \in Range(result)

\* an occurrence of t in u, compared ignoring case, at 0-based position p
OccursAt(t, u, p) ==
    /\ p + Len(t) <= Len(u)
    /\ toLowerCase(SubSeq(u, p + 1, p + Len(t))) = toLowerCase(t)

CharBefore(u, p) == IF p > 0 THEN LowerChar(Char(u, p)) ELSE ""

CharAfter(t, u, p) ==
    IF p + Len(t) < Len(u) THEN LowerChar(Char(u, p + Len(t) + 1)) ELSE ""

\* t occurs in u with no alphanumeric character next to it
OccursUnglued(t, u) ==
    \E p \in 0..Len(u) :
        /\ OccursAt(t, u, p)
        /\ ~IsLowerAlnum(CharBefore(u, p))
        /\ ~IsLowerAlnum(CharAfter(t, u, p))

\* C6: the simplification pass run by applyFilter drops a tag only if it
\* occurs in another tag without an alphanumeric neighbour (or is contained
\* bracket-wise), never merely because it occurs glued inside a longer word:
\* ['censored','uncensored'] keeps both tags.
C6_GluedOccurrenceNotDropped ==
    (afterApplyFilter /\ masterEnabled /\ simplifyEnabled)
    => \A i \in 1..Len(filtered) :
          filtered[i] \notin Range(result)
          => \E j \in 1..Len(filtered) :
                /\ j # i
                /\ \/ OccursUnglued(filtered[i], filtered[j])
                   \/ isComplexPhraseContained(filtered[i], filtered[j])

\* C7: the simplification pass run by applyFilter drops a bracketed tag T
\* when a longer tag U has the same main word and every parenthesised
\* content of T is a substring of one of U's, all ignoring case.
C7_BracketContainedTagDropped ==
    (afterApplyFilter /\ masterEnabled /\ simplifyEnabled)
    => \A i, j \in 1..Len(filtered) :
          (/\ i # j
           /\ Len(filtered[j]) > Len(filtered[i])
           /\ Len(parseTagStructure(filtered[i]).bracketContents) > 0
           /\ isComplexPhraseContained(filtered[i], filtered[j]))
          => filtered[i] \notin Range(result)

(***************************************************************************)
(* Properties of FilterManager.simplifyTags (specification SpecSimplify).  *)
(***************************************************************************)
\* t is matched in u as a whole word at a position whose two neighbours are
\* not both alphanumeric
WholeWordAccepted(t, u) ==
    \E p \in 0..Len(u) :
        /\ OccursAt(t, u, p)
        /\ wordBoundaryAt(u, p)
        /\ wordBoundaryAt(u, p + Len(t))
        /\ ~(IsLowerAlnum(CharBefore(u, p)) /\ IsLowerAlnum(CharAfter(t, u, p)))

\* C8: simplifyTags drops a tag whenever a strictly longer other tag holds it
\* as a whole word at some position whose neighbours are not both
\* alphanumeric: 'hat' goes from ['hat','red hat','blue eyes'] and from
\* ['hat','hatter hat'].
C8_WholeWordContainedTagDropped ==
    lastOp = "simplifyTags"
    => \A i, j \in 1..Len(argTags) :
          (/\ i # j
           /\ Len(argTags[j]) > Len(argTags[i])
           /\ WholeWordAccepted(argTags[i], argTags[j]))
          => argTags[i] \notin Range(result)

(***************************************************************************)
(* Properties of ContentCleaner.clean (specification SpecClean).           *)
(***************************************************************************)
\* C9: clean applied to the ', '-joined output of clean returns that output.
C9_CleanIdempotent ==
    lastOp = "cleanAgain" => result = cleaned

\* t ends with <whitespace><digits>[.digits][k|M]
EndsWithWeight(t) ==
    \E p \in 1..Len(t) :
        LET afterDigits == runEnd(t, p + 1, Digits)
            afterFraction ==
                IF /\ afterDigits <= Len(t)
                   /\ Char(t, afterDigits) = "."
                   /\ runEnd(t, afterDigits + 1, Digits) > afterDigits + 1
                THEN runEnd(t, afterDigits + 1, Digits)
                ELSE afterDigits
            afterUnit ==
                IF afterFraction <= Len(t) /\ Char(t, afterFraction) \in {"k", "M"}
                THEN afterFraction + 1 ELSE afterFraction
        IN  /\ Char(t, p) \in Whitespace
            /\ afterDigits > p + 1
            /\ afterUnit = Len(t) + 1

\* C10: no tag returned by clean is one of the category-marker words
\* (ignoring case) and none ends with a weight suffix.
C10_NoMarkerNoWeight ==
    lastOp = "clean"
    => \A i \in 1..Len(cleaned) :
          /\ toLowerCase(cleaned[i]) \notin
                { toLowerCase(CATEGORY_MARKERS[k]) : k \in 1..Len(CATEGORY_MARKERS) }
          /\ ~EndsWithWeight(cleaned[i])

(***************************************************************************)
(* C11: the list convert returns never holds two tags that are equal       *)
(* ignoring case, whatever the filter configuration (groups with           *)
(* replacements included).                                                 *)
(***************************************************************************)
afterConvert == lastOp = "convert"

C11_ConvertResultDedupedIgnoringCase ==
    afterConvert =>
        \A i, j \in 1..Len(result) :
            i # j => toLowerCase(result[i]) # toLowerCase(result[j])

(***************************************************************************)
(* C12: extractDanbooru captures, in order, every line that immediately    *)
(* follows a line that is exactly '?' after trimming, captures no other    *)
(* line, and joins the captured lines with ', '.                           *)
(***************************************************************************)
\* the trimmed lines of text that immediately follow a '?' line, in order
LinesAfterMarkers(text) ==
    LET lines == trimAll(split(text, "\n"))
    IN  SelectIdx(lines, { i \in 2..Len(lines) : lines[i - 1] = "?" }, 1)

C12_DanbooruCapturesLinesAfterMarkers ==
    lastOp = "extractDanbooru" => rawText = join(LinesAfterMarkers(input), ", ")

(***************************************************************************)
(* C13: extractGelbooru discards every processed segment that is empty or  *)
(* has length 1 or less, whether or not the segment began with a category  *)
(* label: the extracted content never contains a one-character segment.    *)
(***************************************************************************)
C13_GelbooruNoShortSegment ==
    lastOp = "extractGelbooru" =>
        \/ rawText = ""
        \/ \A i \in 1..Len(split(rawText, ", ")) : Len(split(rawText, ", ")[i]) > 1

(***************************************************************************)
(* C14: in every state reachable from startup through addGroup,            *)
(* duplicateGroup, deleteGroup, updateGroup, reorderGroups and             *)
(* importConfig (append or replace), no two groups of the group list have  *)
(* the same id.                                                            *)
(***************************************************************************)
C14_GroupIdsUnique ==
    \A i, j \in 1..Len(groups) : i # j => groups[i].id # groups[j].id

(***************************************************************************)
(* C15: after every convert call, whatever the value of masterEnabled and  *)
(* whatever configuration operations happened since the previous call, the *)
(* total filtered count of the status snapshot equals the sum of the       *)
(* per-group match counts of that snapshot.                                *)
(***************************************************************************)
RECURSIVE SumOfMatchCounts(_)
SumOfMatchCounts(gs) ==
    IF Len(gs) = 0 THEN 0
    ELSE gs[1].currentMatchCount + SumOfMatchCounts(Tail(gs))

C15_TotalIsSumOfGroupCounts ==
    afterConvert => lastTotalFilteredCount = SumOfMatchCounts(groups)

(***************************************************************************)
(* C16: an active group's recorded match count equals the number of        *)
(* distinct positions of the working list, as it stood when the group ran, *)
(* whose tag matches at least one of the group's patterns; a tag matched   *)
(* by several keywords of the group is counted once.                       *)
(***************************************************************************)
patternCount(keywords) == Len(compileGroupPatterns(keywords))

tagMatchesPattern(tag, keywords, k) ==
    patternTest(compileGroupPatterns(keywords)[k], tag)

\* the positions of tags, counted one by one from the left
RECURSIVE CountMatchingPositions(_, _)
CountMatchingPositions(tags, keywords) ==
    IF Len(tags) = 0 THEN 0
    ELSE (IF \E k \in 1..patternCount(keywords) : tagMatchesPattern(tags[1], keywords, k)
          THEN 1 ELSE 0)
         + CountMatchingPositions(Tail(tags), keywords)

MatchingPairs(tags, keywords) ==
    { pair \in (1..Len(tags)) \X (1..patternCount(keywords)) :
        tagMatchesPattern(tags[pair[1]], keywords, pair[2]) }

groupOfRun(run) == groups[CHOOSE g \in 1..Len(groups) : groups[g].id = run.id]

C16_MatchCountIsDistinctPositions ==
    afterApplyFilter =>
        \A r \in 1..Len(groupRuns) :
            /\ groupRuns[r].matchCount =
                  CountMatchingPositions(groupRuns[r].input, groupOfRun(groupRuns[r]).keywords)
            /\ groupOfRun(groupRuns[r]).currentMatchCount = groupRuns[r].matchCount

\* a group ran on a list where one tag is matched by two of its keywords,
\* and two positions were counted
C16_TagMatchedByTwoKeywords ==
    /\ afterApplyFilter
    /\ \E r \in 1..Len(groupRuns) :
          /\ groupRuns[r].matchCount = 2
          /\ groupOfRun(groupRuns[r]).currentMatchCount = 2
          /\ Cardinality(MatchingPairs(groupRuns[r].input,
                                       groupOfRun(groupRuns[r]).keywords)) > 2

(***************************************************************************)
(* C17: the replacement validator accepts a string exactly when it is      *)
(* empty, or contains no comma, or every comma in it is preceded by a      *)
(* non-space and followed by exactly one space character and splitting on  *)
(* ', ' gives only non-empty tokens that rejoin to the original string;    *)
(* every other string is rejected.                                         *)
(***************************************************************************)
\* the comma at position i has a non-space before it and exactly one space
\* character after it
CommaWellPlaced(r, i) ==
    /\ i > 1
    /\ Char(r, i - 1) # " "
    /\ i < Len(r)
    /\ Char(r, i + 1) = " "
    /\ (i + 2 <= Len(r) => Char(r, i + 2) # " ")

AcceptedByRule(r) ==
    \/ r = ""
    \/ ~includes(r, ",")
    \/ /\ \A i \in 1..Len(r) : Char(r, i) = "," => CommaWellPlaced(r, i)
       /\ \A k \in 1..Len(split(r, ", ")) : split(r, ", ")[k] # ""
       /\ join(split(r, ", "), ", ") = r

C17_ValidatorAcceptsExactlyTheRule ==
    lastOp = "isValidReplacement" => (valid <=> AcceptedByRule(input))

(***************************************************************************)
(* C18: simplify is idempotent: for every tag list, applying the           *)
(* simplification pass to its own output returns that output unchanged,    *)
(* both for the pass run by applyFilter and for the word-boundary variant. *)
(***************************************************************************)
afterSecondPass == lastOp \in { "simplifyTags again", "_simplifyTags again" }

C18_SimplifyIdempotent == afterSecondPass => result = argTags

\* each pass ran twice on a list from which its first run dropped a tag and
\* kept at least two
C18_FirstPassDroppedATag ==
    /\ afterSecondPass
    /\ Len(split(input, ", ")) > Len(argTags)
    /\ Len(argTags) >= 2
    /\ result = argTags

(***************************************************************************)
(* C19: after each mutating configuration operation returns                *)
(* (setMasterEnabled, setSimplifyEnabled, addGroup, duplicateGroup,        *)
(* deleteGroup, updateGroup, reorderGroups, importConfig in either mode),  *)
(* the configuration held in the store equals the in-memory configuration: *)
(* masterEnabled, simplifyEnabled and the ordered groups with their ids,   *)
(* names, enabled flags, keywords and replacements.                        *)
(***************************************************************************)
ConfigOperations ==
    { "setMasterEnabled", "setSimplifyEnabled", "addGroup", "duplicateGroup",
      "deleteGroup", "updateGroup", "reorderGroups", "importConfig" }

afterConfigOperation == lastOp \in ConfigOperations

storeHoldsConfig == "groups" \in DOMAIN storedConfig

sameConfiguredGroup(stored, held) ==
    /\ stored.id = held.id
    /\ stored.name = held.name
    /\ stored.enabled = held.enabled
    /\ stored.keywords = held.keywords
    /\ stored.replacement = held.replacement

storeEqualsMemory ==
    /\ storeHoldsConfig
    /\ storedConfig.masterEnabled = masterEnabled
    /\ storedConfig.simplifyEnabled = simplifyEnabled
    /\ Len(storedConfig.groups) = Len(groups)
    /\ \A i \in 1..Len(groups) : sameConfiguredGroup(storedConfig.groups[i], groups[i])

\* the statement as it stands: it fails when the call finds no group to act
\* on and nothing was ever saved
C19_StoreEqualsMemoryAfterEveryCall == afterConfigOperation => storeEqualsMemory

\* C19, amended: after each of these operations returns, the store equals
\* the in-memory configuration, or the call found no group to act on and
\* left both the in-memory configuration and the store as they were
C19_StoreEqualsMemoryAfterMutation ==
    [][ afterConfigOperation' =>
           \/ storeEqualsMemory'
           \/ UNCHANGED << masterEnabled, simplifyEnabled, groups, storedConfig >> ]_vars

\* a group was duplicated and the store holds the group and its copy
C19_DuplicateSaved ==
    /\ lastOp = "duplicateGroup"
    /\ Len(groups) = 2
    /\ groups[2].name = groups[1].name \o COPY_SUFFIX
    /\ storeEqualsMemory

(***************************************************************************)
(* C20: convert never writes the persisted filter configuration: across    *)
(* any convert call the stored configuration is unchanged, and the         *)
(* in-memory masterEnabled, simplifyEnabled, group order, keywords and     *)
(* replacements are unchanged; only the match counts and totals may        *)
(* change.                                                                 *)
(***************************************************************************)
C20_ConvertKeepsConfiguration ==
    [][ afterConvert' =>
           /\ storedConfig' = storedConfig
           /\ masterEnabled' = masterEnabled
           /\ simplifyEnabled' = simplifyEnabled
           /\ Len(groups') = Len(groups)
           /\ \A i \in 1..Len(groups) : sameConfiguredGroup(groups'[i], groups[i]) ]_vars

\* a convert call counted a match in memory while the store, which still
\* describes the same groups, keeps the count it had
C20_CountChangedStoreDidNot ==
    /\ afterConvert
    /\ storeEqualsMemory
    /\ Len(groups) >= 1
    /\ groups[1].currentMatchCount > 0
    /\ storedConfig.groups[1].currentMatchCount = 0

(***************************************************************************)
(* C21: importConfig on a document that is not valid JSON, or lacks a      *)
(* boolean masterEnabled, or lacks an array groups, or contains a group    *)
(* without an id, a string name or an array keywords, returns a failure    *)
(* result and leaves the in-memory masterEnabled, simplifyEnabled and      *)
(* group list exactly as before.                                           *)
(***************************************************************************)
groupLacksAField(group) ==
    \/ "id" \notin DOMAIN group
    \/ group.id = NullId
    \/ "name" \notin DOMAIN group
    \/ "keywords" \notin DOMAIN group

DocumentMustBeRejected(document) ==
    \/ "syntaxError" \in DOMAIN document
    \/ "masterEnabled" \notin DOMAIN document
    \/ "groups" \notin DOMAIN document
    \/ \E i \in 1..Len(document.groups) : groupLacksAField(document.groups[i])

RejectedFiles == { document \in ImportFiles : DocumentMustBeRejected(document) }

C21_RejectedImportChangesNothing ==
    [][ \A document \in RejectedFiles, append \in BOOLEAN :
            ImportConfig(document, append) =>
                /\ ~success'
                /\ UNCHANGED << masterEnabled, simplifyEnabled, groups >> ]_vars

\* a rejected import returned in a manager that holds a group
C21_ImportFailedGroupsKept ==
    /\ lastOp = "importConfig"
    /\ ~success
    /\ Len(groups) >= 1
    /\ storeEqualsMemory

(***************************************************************************)
(* C22: at startup with no grouped configuration stored and a legacy flat  *)
(* configuration with a non-empty keyword list, the manager ends with      *)
(* exactly one enabled group holding the legacy keywords in the same       *)
(* order and with masterEnabled and simplifyEnabled taken from the legacy  *)
(* values, and it persists the grouped configuration, so that every later  *)
(* startup loads the grouped configuration and does not migrate again.     *)
(***************************************************************************)
legacyHasKeywords ==
    /\ "keywords" \in DOMAIN oldSettings
    /\ Len(oldSettings.keywords) > 0

StartupBranches ==
    { "_loadGroupedSettings", "_migrateFromOldSettings", "_initializeDefaults" }

migratedFromLegacy ==
    /\ Len(groups) = 1
    /\ groups[1].enabled
    /\ groups[1].keywords = oldSettings.keywords
    /\ masterEnabled = oldSettings.enabled
    /\ "simplifyEnabled" \in DOMAIN oldSettings => simplifyEnabled = oldSettings.simplifyEnabled
    /\ storeEqualsMemory

C22_LegacyMigratedOnce ==
    /\ [](lastOp = "_migrateFromOldSettings" /\ legacyHasKeywords => migratedFromLegacy)
    /\ [][ legacyHasKeywords /\ lastOp' \in StartupBranches
              => lastOp' = "_loadGroupedSettings" ]_vars

\* a later startup loaded the group the migration had made of the legacy
\* keywords
C22_MigratedGroupLoadedAgain ==
    /\ lastOp = "_loadGroupedSettings"
    /\ legacyHasKeywords
    /\ Len(groups) = 1
    /\ groups[1].keywords = oldSettings.keywords
    /\ groups[1].name = MIGRATED_GROUP_NAME

(***************************************************************************)
(* C23: if any stage of convert (detect, extract, clean, applyFilter, or   *)
(* the status update) throws for a non-empty string input, convert catches *)
(* it, signals the error to the user, returns the empty list, and no       *)
(* exception reaches the caller.                                           *)
(***************************************************************************)
NonEmptyArguments == { arg \in ConvertArguments : ~isEmptyInput(arg) }

ThrowingStages == ConvertFaults \ { "none" }

C24_EmptyInputChangesNothing ==
    [][ afterConvert' /\ isEmptyInput(input') =>
            /\ result' = << >>
            /\ ~thrown'
            /\ UNCHANGED << groups, lastTotalFilteredCount, lastSimplifiedCount,
                            display, storedConfig, masterEnabled, simplifyEnabled >> ]_vars

\* convert returned from a non-string argument while the counts and the
\* format status of an earlier conversion are still in place
C24_NonStringAfterConversion ==
    /\ afterConvert
    /\ input.type # "string"
    /\ result = << >>
    /\ lastTotalFilteredCount > 0
    /\ \E i \in 1..Len(groups) : groups[i].currentMatchCount > 0
    /\ display.format # "hidden"
    /\ display.filteredCount = lastTotalFilteredCount

(***************************************************************************)
(* C25: detect is total and follows the ordered rules: for every string it *)
(* returns exactly one format: Gelbooru when the input has no newline and  *)
(* contains a category marker (Artist?/Character?/Copyright?/Tag?/         *)
(* Metadata?, case-insensitive) or any '?', Danbooru when it has a newline *)
(* and contains '?', and Standard otherwise (including the empty string).  *)
(***************************************************************************)
CategoryMarkers == { "artist?", "character?", "copyright?", "tag?", "metadata?" }

containsCategoryMarker(text) ==
    \E marker \in CategoryMarkers :
        \E p \in 1..Len(text) :
            /\ p + Len(marker) - 1 <= Len(text)
            /\ toLowerCase(SubSeq(text, p, p + Len(marker) - 1)) = marker

containsChar(text, c) == \E p \in 1..Len(text) : Char(text, p) = c

FormatByRule(text) ==
    IF ~containsChar(text, "\n") /\ (containsCategoryMarker(text) \/ containsChar(text, "?"))
    THEN "gelbooru"
    ELSE IF containsChar(text, "\n") /\ containsChar(text, "?")
    THEN "danbooru"
    ELSE "standard"

C25_DetectFollowsRules ==
    lastOp = "detect" =>
        /\ format \in { "danbooru", "gelbooru", "standard" }
        /\ format = FormatByRule(input)

\* a single line with a '?' and no category marker was detected as Gelbooru
C25_BareQuestionMarkIsGelbooru ==
    /\ lastOp = "detect"
    /\ containsChar(input, "?")
    /\ ~containsCategoryMarker(input)
    /\ format = "gelbooru"

(***************************************************************************)
(* C26: the output of clean never contains two tags that are equal         *)
(* ignoring case; of several case-variants in the input, the one kept is   *)
(* the first occurrence with its original casing, and surviving tags keep  *)
(* their input order.                                                      *)
(***************************************************************************)
\* the tags of rawText after the per-tag cleaning, before the deduplication
tagsBeforeDedup == cleanSegments(split(rawText, ","))

sameIgnoringCase(a, b) == toLowerCase(a) = toLowerCase(b)

firstOccurrence(tags, tag) ==
    SetMin({ i \in 1..Len(tags) : sameIgnoringCase(tags[i], tag) })

C26_CleanDedupesKeepingFirst ==
    lastOp = "clean" =>
        /\ \A i, j \in 1..Len(cleaned) :
              i # j => ~sameIgnoringCase(cleaned[i], cleaned[j])
        /\ \A i \in 1..Len(tagsBeforeDedup) :
              \E k \in 1..Len(cleaned) : sameIgnoringCase(cleaned[k], tagsBeforeDedup[i])
        /\ \A k \in 1..Len(cleaned) :
              /\ \E i \in 1..Len(tagsBeforeDedup) : sameIgnoringCase(tagsBeforeDedup[i], cleaned[k])
              /\ cleaned[k] = tagsBeforeDedup[firstOccurrence(tagsBeforeDedup, cleaned[k])]
        /\ \A k, m \in 1..Len(cleaned) :
              k < m => firstOccurrence(tagsBeforeDedup, cleaned[k])
                          < firstOccurrence(tagsBeforeDedup, cleaned[m])

\* the raw text held two case-variants of a tag, with another tag behind
\* them or between them, and the first variant is the one kept
C26_CaseVariantDropped ==
    /\ lastOp = "clean"
    /\ Len(cleaned) >= 1
    /\ \E i, j \in 1..Len(tagsBeforeDedup) :
          /\ i < j
          /\ sameIgnoringCase(tagsBeforeDedup[i], tagsBeforeDedup[j])
          /\ tagsBeforeDedup[i] # tagsBeforeDedup[j]
          /\ \E k \in 1..Len(cleaned) : cleaned[k] = tagsBeforeDedup[i]
          /\ \A k \in 1..Len(cleaned) : cleaned[k] # tagsBeforeDedup[j]

(***************************************************************************)
(* C27: after duplicateGroup, the copy and its source are independent:     *)
(* adding or removing a keyword on one of them, as the keyword-input       *)
(* handlers do, leaves the other group's keyword list unchanged.           *)
(***************************************************************************)
othersKeepKeywords(groupId) ==
    /\ Len(groups') = Len(groups)
    /\ \A i \in 1..Len(groups) :
          groups[i].id # groupId => groups'[i].keywords = groups[i].keywords

C27_KeywordEditLeavesOtherGroups ==
    [][ /\ \A id \in KnownIds, value \in KeywordInputs :
              AddKeywordFromInput(id, value) => othersKeepKeywords(id)
        /\ \A id \in KnownIds, index \in KeywordIndices :
              RemoveKeywordFromGroup(id, index) => othersKeepKeywords(id) ]_vars

\* a group and its copy whose keyword lists were changed by one edit
C27_CopyFollowsSource ==
    /\ lastOp \in { "addKeywordFromInput", "removeKeywordFromGroup" }
    /\ \E i, j \in 1..Len(groups) :
          /\ i # j
          /\ groups[i].keywordsArray = groups[j].keywordsArray
          /\ groups[i].keywords = groups[j].keywords
          /\ groups[i].keywords # << "hat" >>
          /\ groups[i].keywords # << "hat", "h.t" >>
          /\ groups[i].keywords # << >>

(***************************************************************************)
(* C28: reorderGroups(ids) always yields a permutation of the previous     *)
(* group list, for any argument (including ids that are unknown, missing   *)
(* or repeated): every previous group appears exactly once, groups named   *)
(* in ids come first in the order of ids, and groups not named follow in   *)
(* their previous relative order.                                          *)
(***************************************************************************)
occurrences(gs, group) == Cardinality({ i \in 1..Len(gs) : gs[i] = group })

isPermutation(before, after) ==
    /\ Len(after) = Len(before)
    /\ \A i \in 1..Len(before) :
          occurrences(after, before[i]) = occurrences(before, before[i])

\* the ids of groupIds that name a group of gs, each once, in the order of
\* their first mention
namedIds(gs, groupIds) ==
    dedupeKeepFirst(SelectIdx(groupIds,
        { k \in 1..Len(groupIds) : \E i \in 1..Len(gs) : gs[i].id = groupIds[k] }, 1))

namedFirstThenTheRest(before, groupIds, after) ==
    LET named == namedIds(before, groupIds)
        rest == SelectIdx(before,
                    { i \in 1..Len(before) :
                        \A k \in 1..Len(groupIds) : groupIds[k] # before[i].id }, 1)
    IN  /\ Len(after) = Len(named) + Len(rest)
        /\ \A k \in 1..Len(named) : after[k].id = named[k]
        /\ \A k \in 1..Len(rest) : after[Len(named) + k] = rest[k]

C28_ReorderYieldsPermutation ==
    [][ \A ids \in ReorderArguments :
            ReorderGroups(ids) =>
                /\ isPermutation(groups, groups')
                /\ namedFirstThenTheRest(groups, ids, groups') ]_vars

(***************************************************************************)
(* C29: for every non-empty tag list, the simplification pass returns a    *)
(* non-empty list that is an order-preserving sublist of its input (a tag  *)
(* of maximal length is never dropped), and returns the input unchanged    *)
(* when no tag is contained in another.  Checked for both passes, each     *)
(* with its own containment relation.                                      *)
(***************************************************************************)
afterSimplifyPass ==
    lastOp \in { "simplifyTags", "_simplifyTags", "simplifyTags again",
                 "_simplifyTags again" }

\* the containment relation of the pass that just ran
containedInOther(short, long) ==
    IF lastOp \in { "_simplifyTags", "_simplifyTags again" }
    THEN includes(long, short) /\ long # short
    ELSE isTagContainedIn(short, long)

isOrderedSublist(sub, whole) ==
    \E kept \in SUBSET (1..Len(whole)) : sub = SelectIdx(whole, kept, 1)

timesIn(tags, tag) == Cardinality({ i \in 1..Len(tags) : tags[i] = tag })

C29_NothingContainedNothingDropped ==
    /\ afterSimplifyPass
    /\ Len(argTags) >= 2
    /\ \A i, j \in 1..Len(argTags) : i # j => ~containedInOther(argTags[i], argTags[j])
    /\ result = argTags

(***************************************************************************)
(* C30: ExampleManager's click lock: a loadExample call made while         *)
(* isLoading is true changes nothing (currentIndex and the input are       *)
(* untouched), every effective load is followed 500 ms later by isLoading  *)
(* returning to false, and any two consecutive effective loads load        *)
(* different examples in the cyclic order Danbooru, Gelbooru, Standard.    *)
(***************************************************************************)
\* the example that follows the one loaded last; "none" before the first load
loadedName == IF currentIndex < 0 THEN "none" ELSE examples[currentIndex + 1].name

nameAfter(name) ==
    IF name = "Danbooru" THEN "Gelbooru"
    ELSE IF name = "Gelbooru" THEN "Standard"
    ELSE "Danbooru"

contentNamed(name) ==
    IF name = "Danbooru" THEN examples[1].content
    ELSE IF name = "Gelbooru" THEN examples[2].content
    ELSE examples[3].content

C30_ExampleClickLock ==
    /\ [][ isLoading /\ LoadExample =>
              UNCHANGED << currentIndex, input, isLoading, unlockAt, now, managerVars,
                           display, result >> ]_vars
    /\ [][ ~isLoading /\ LoadExample =>
              /\ isLoading'
              /\ unlockAt' = now + LOCK_DELAY
              /\ loadedName' = nameAfter(loadedName)
              /\ loadedName' # loadedName
              /\ input' = contentNamed(nameAfter(loadedName))
              /\ (currentIndex >= 0 => input' # contentNamed(loadedName)) ]_vars
    /\ [](isLoading => unlockAt # NoTimer /\ now <= unlockAt)
    /\ [][ isLoading /\ isLoading' => unlockAt' = unlockAt ]_vars
    /\ [][ isLoading /\ ~isLoading' => now = unlockAt /\ now' = now ]_vars
    /\ (isLoading ~> ~isLoading)

\* the fourth effective load: the lock was released three times and the
\* cycle is back at the first example
C30_CycleBackToDanbooru ==
    /\ lastOp = "loadExample"
    /\ isLoading
    /\ currentIndex = 0
    /\ now >= 3 * LOCK_DELAY
    /\ input = examples[1].content

\* a click that came while the lock was held
C30_ClickWhileLoading ==
    /\ lastOp = "loadExample while loading"
    /\ isLoading
    /\ now < unlockAt
    /\ currentIndex = 1
    /\ input = examples[2].content

=============================================================================
